---- MODULE Spec2Model ----
(***************************************************************************)
(* governor-extension-sdk: the event router (pkg/eventrouter), its global  *)
(* and per-route middleware, the correlation-ID processor and the history  *)
(* caches (pkg/eventrouter/historycache).                                  *)
(*                                                                         *)
(* A Handler is modelled by what the router can do with it: a record       *)
(*   [mws |-> <<outermost, ..., innermost>>, h |-> n]                      *)
(* the registered function n wrapped by the listed middlewares.  Calling   *)
(* it enters the middlewares from left to right and then runs n.           *)
(***************************************************************************)
EXTENDS Naturals, Sequences, FiniteSets, TLC

\* ---------------------------------------------------------------- bounds
\* number of route registrations (Create .. Revoke) made during setup
MaxRoutes == 2
\* number of global middlewares added with Use during setup
MaxUse == 2
\* number of ExistsOrStore calls made for one ID while it stays in the cache
MaxCalls == 3
\* number of distinct IDs stored in a local cache, beyond its capacity
MaxIDs == 130
\* ERD files in the local directory of the extension
MaxERDs == 3
\* NATSClient.queueSize: the subscriptions made for one subject
MaxQueueSize == 1

\* ------------------------------------------------------------- constants
GovernorEventCreate  == "CREATE"
GovernorEventUpdate  == "UPDATE"
GovernorEventDelete  == "DELETE"
GovernorEventApprove == "APPROVE"
GovernorEventDeny    == "DENY"
GovernorEventRevoke  == "REVOKE"

Actions ==
  { GovernorEventCreate, GovernorEventUpdate, GovernorEventDelete,
    GovernorEventApprove, GovernorEventDeny, GovernorEventRevoke }

Wildcard == "*"

defaultCacheSize == 128

\* error values; Nil is Go's nil error
Nil == "nil"
ErrHandlerNotFound == "handler not found"
HandlerError == "handler error"
\* an error of the governor client or the ERD files in Bootstrap, and an
\* error of eventClient.Subscribe
BootstrapError == "bootstrap error"
\* an error of governorClient.CreateExtensionResourceDefinition
CreateError == "create error"
\* an error of json.Unmarshal
UnmarshalError == "unmarshal error"
\* Server.status: the zero value, and the values Status has
StatusNone == ""
StatusUp == "UP"
StatusBootstrapping == "BOOTSTRAPPING"
SubscribeError == "subscribe error"
CacheError == "cache error"

\* what a registered handler function may return
HandlerResults == { Nil, HandlerError }

\* middlewares: the two of the package and two caller-supplied ones that
\* mark their entry and exit and always call next
MWCorrelationID == "cid"
MWTraceContext == "trace"
\* the middleware of the processor that keeps its history in a map
MWCorrelationIDMap == "cidmap"
UserMiddlewares == { "A", "B" }

\* goroutines that call Process
Procs == { 1, 2 }

\* the goroutines, or service replicas, that call the history cache directly
Callers == { 1, 2, 3 }

\* the IDs the history cache is called with directly
CacheIDs == { "a", "b" }

\* subjects routes are registered on, and subjects messages arrive on
RouteSubjects == { "groups", "users" }
EventSubjects == { "groups", "users" }

\* correlation IDs carried by events
Cids == { "", "abc" }


\* An event: its Action and its Headers.  Headers is <<>> for a nil header
\* map, and <<vs>> for a map, vs being the values stored under the
\* correlation-ID key (<<>> when the key is absent).
NilHeaders == <<>>
HeadersWith(cid) == << <<cid>> >>

\* the headers events arrive with
SomeHeaders == { NilHeaders, HeadersWith(""), HeadersWith("abc") }

Event(action, headers) == [Action |-> action, Headers |-> headers]

\* nats.Header.Get: the first value under the key, "" when there is none
HeaderGet(headers) ==
  IF headers[1] = <<>> THEN "" ELSE headers[1][1]

\* ------------------------------------------------------------- variables
VARIABLES
  routes,           \* Router.routes: subject -> (action -> Handler)
  mwchain,          \* Router.mwchain, as the middlewares applied so far, in order
  skippableRoutes,  \* CorrelationIDProcessor.skippableRoutes: action -> subjects
  backend,          \* which HistoryCache the processor holds: "local" or "nats"
  cache,            \* the IDs in the history cache, most recently used first
  calls,            \* the Process call each goroutine is in
  subjs,            \* <<the result of the Subjects() call being returned>>, else <<>>
  regs,             \* history: the registrations made, in order
  hist,             \* history: per non-empty correlation ID, the dispatched deliveries
                    \* since it was last forgotten: 0, 1, 2 for two or more, and 3
                    \* when a delivery was still on its way to the cache then
  lc,               \* LocalCache.cache: the live entries, most recently used first
  mu,               \* LocalCache.mu: the caller holding it, 0 when unlocked
  kv,               \* NATSCache.kv: the keys in the bucket, latest created first
  ops,              \* the history cache call each caller is in
  both,             \* the results of the last two calls made on both caches, the
                    \* latest first
  since,            \* history: per ID, the ExistsOrStore calls the local cache (l)
                    \* and the bucket (k) have recorded or answered since the
                    \* ID was last removed from it or expired
  server,           \* the Server: where Run is, and what it has done so far
  lost,             \* history: the IDs the history cache has held and forgotten,
                    \* where the specification keeps track of them
  nc                \* the NATSClient, its subscriptions and their callbacks, and
                    \* the listener of the server that receives from it

\* the router and its correlation-ID processor
rvars == << routes, mwchain, skippableRoutes, backend, cache, calls, subjs, regs, hist >>

\* the history caches called directly
cvars == << lc, mu, kv, ops, both, since >>

\* the server around the router, and the history of forgetting
svars == << server, lost, nc >>

vars == << rvars, cvars, svars >>

\* ------------------------------------------------------------ sequences
Range(s) == { s[i] : i \in 1..Len(s) }

Front(s) == SubSeq(s, 1, Len(s) - 1)

Last(s) == s[Len(s)]

RECURSIVE Reverse(_)
Reverse(s) == IF s = <<>> THEN <<>> ELSE Append(Reverse(Tail(s)), Head(s))

\* s with every occurrence of x left out
Without(s, x) == SelectSeq(s, LAMBDA e : e # x)

\* all orders in which the elements of a finite set can be listed
RECURSIVE Orders(_)
Orders(S) ==
  IF S = {} THEN { <<>> }
  ELSE UNION { { <<x>> \o o : o \in Orders(S \ {x}) } : x \in S }

\* -------------------------------------------------------------- contexts
\* a context: the subject saved in it (<<>> when none was saved), the
\* correlation ID injected into it, and whether it is a context of the
\* process-event span, which has adopted the trace carrier of the event
Background == [subject |-> <<>>, cid |-> "", span |-> FALSE]

\* the context tracer.Start returns for the context extracted from the
\* carrier of the event
StartSpan(ctx) == [ctx EXCEPT !.span = TRUE]

\* a SaveSubjectToContext that returns the context it was given
SaveSubjectNowhere(ctx, subject) == ctx

SaveSubjectToContext(ctx, subject) == [ctx EXCEPT !.subject = <<subject>>]

GetSubjectFromContext(ctx) ==
  IF ctx.subject = <<>> THEN "" ELSE ctx.subject[1]

InjectCorrelationID(ctx, cid) == [ctx EXCEPT !.cid = cid]

\* events.ExtractCorrelationID(ctx): the ID InjectCorrelationID put there
ContextCorrelationID(ctx) == ctx.cid

\* ---------------------------------------------------------- round tripper
\* the header maps of an outbound request before the round tripper: with no
\* value under the correlation-ID key, and with a value left there
RequestHeaders == { << <<>> >>, HeadersWith("old") }

\* http.Header.Set: the values under the key are replaced by the one value
HeaderSet(headers, value) == << <<value>> >>

\* the round tripper setting the header whatever the ID in the context
WithCorrelationIDAlways(req) ==
  [req EXCEPT !.Header = HeaderSet(@, ContextCorrelationID(req.ctx))]

\* the round tripper of WithCorrelationID, up to its call of next: the
\* request as next receives it
WithCorrelationID(req) ==
  LET cid == ContextCorrelationID(req.ctx)
  IN  IF cid # "" THEN [req EXCEPT !.Header = HeaderSet(@, cid)] ELSE req

\* ---------------------------------------------------------------- router
\* mw(handler): the handler wrapped by one more middleware
Wrap(mw, handler) == [handler EXCEPT !.mws = <<mw>> \o @]

\* a handler function as registered, before any wrapping
HandlerFunc(n) == [mws |-> <<>>, h |-> n]

\* the route middlewares applied with the first of the list outermost
ApplyRouteOutermostFirst(handler, middlewares) ==
  [handler EXCEPT !.mws = middlewares \o @]

\* the loop of addRoute: handler = mw(handler) for each middleware in order
RECURSIVE ApplyRouteMiddlewares(_, _)
ApplyRouteMiddlewares(handler, middlewares) ==
  IF middlewares = <<>> THEN handler
  ELSE ApplyRouteMiddlewares(Wrap(Head(middlewares), handler), Tail(middlewares))

\* addRoute that leaves a key that is already bound as it is
AddRouteKeepFirst(rt, action, subj, handler, middlewares) ==
  LET prev == IF subj \in DOMAIN rt THEN rt[subj] ELSE << >>
      wrapped == ApplyRouteMiddlewares(handler, middlewares)
      entry == [a \in (DOMAIN prev) \cup {action} |->
                  IF a \in DOMAIN prev THEN prev[a] ELSE wrapped]
  IN  [s \in (DOMAIN rt) \cup {subj} |-> IF s = subj THEN entry ELSE rt[s]]

AddRoute(rt, action, subj, handler, middlewares) ==
  LET prev == IF subj \in DOMAIN rt THEN rt[subj] ELSE << >>
      wrapped == ApplyRouteMiddlewares(handler, middlewares)
      entry == [a \in (DOMAIN prev) \cup {action} |->
                  IF a = action THEN wrapped ELSE prev[a]]
  IN  [s \in (DOMAIN rt) \cup {subj} |-> IF s = subj THEN entry ELSE rt[s]]

\* applyGlobalMiddleware: the new chain is mw(next(handler))
ApplyGlobalMiddleware(chain, mw) == Append(chain, mw)

\* the chain composed the other way round: next(mw(handler))
RECURSIVE MwChainInside(_, _)
MwChainInside(chain, handler) ==
  IF chain = <<>> THEN handler
  ELSE Wrap(Head(chain), MwChainInside(Tail(chain), handler))

\* r.mwchain(handler): the identity for the chain of NewRouter, and
\* mw(next(handler)) for each middleware applied since
RECURSIVE MwChain(_, _)
MwChain(chain, handler) ==
  IF chain = <<>> THEN handler
  ELSE Wrap(Last(chain), MwChain(Front(chain), handler))

\* Subjects listing a subject once for each of its actions
SubjectsPerAction(rt) ==
  { o \in UNION { [1..n -> DOMAIN rt] : n \in 0..6 } :
      \A sb \in DOMAIN rt :
        Cardinality({ i \in DOMAIN o : o[i] = sb }) = Cardinality(DOMAIN rt[sb]) }

\* Subjects(): the keys of r.routes, in any order the map iteration yields
SubjectsOf(rt) == Orders(DOMAIN rt)

\* NewRouter(opts...): the identity chain, then each option applied in order.
\* An option is named by the global middleware it applies: WithTracer,
\* WithCorrelationIDProcessor and WithMiddleware(mw).
RECURSIVE NewRouter(_)
NewRouter(opts) ==
  IF opts = <<>> THEN <<>>
  ELSE ApplyGlobalMiddleware(NewRouter(Front(opts)), Last(opts))

\* a NewServer whose router has the correlation option before the tracer
DefaultRouterTraceOutermost == NewRouter(<<MWCorrelationID, MWTraceContext>>)

\* the router NewServer builds when none is given: WithTracer, then
\* WithCorrelationIDProcessor
DefaultRouter == NewRouter(<<MWTraceContext, MWCorrelationID>>)

\* --------------------------------------------------------- history cache
\* expirable.LRU.Get: a live entry is found and becomes the most recently used
LRUGet(c, id) ==
  [ok |-> id \in Range(c),
   cache |-> IF id \in Range(c) THEN <<id>> \o Without(c, id) ELSE c]

\* an Add that never evicts
LRUAddUnbounded(c, id, size) == <<id>> \o Without(c, id)

\* expirable.LRU.Add: the entry becomes the most recently used; when the
\* cache then holds more than its size, the least recently used is evicted
LRUAdd(c, id, size) ==
  LET added == <<id>> \o Without(c, id)
  IN  IF Len(added) > size THEN Front(added) ELSE added

\* ExistsOrStore that only tests for the ID and leaves the recording to later
LocalExistsOnly(c, id) ==
  LET got == LRUGet(c, id)
  IN  { [exists |-> got.ok, err |-> Nil, cache |-> got.cache] }

\* ExistsOrStore that adds the ID without looking it up first
LocalStoreAlways(c, id) ==
  { [exists |-> FALSE, err |-> Nil, cache |-> LRUAdd(c, id, defaultCacheSize)] }

\* LocalCache.ExistsOrStore, under lc.mu: Get, and Add when not found
LocalExistsOrStore(c, id) ==
  LET got == LRUGet(c, id)
  IN  { [exists |-> got.ok,
         err |-> Nil,
         cache |-> IF ~got.ok THEN LRUAdd(got.cache, id, defaultCacheSize)
                   ELSE got.cache] }

\* a Remove that leaves the cache as it is
LocalRemoveNothing(c, id) == c

\* LocalCache.Remove
LocalRemove(c, id) == Without(c, id)

\* a store whose create overwrites a key that exists
KVPut(c, id) ==
  (IF id = "" THEN {}
   ELSE { [res |-> "ok", cache |-> <<id>> \o Without(c, id)] })
  \cup { [res |-> "error", cache |-> c] }

\* nats.KeyValue.Create(id, []byte{}): "ok" creates the key, "exists" is
\* nats.ErrKeyExists, "error" is any other failure.  The store can fail on
\* any call, and it rejects the empty key.
KVCreate(c, id) ==
  (IF id = "" THEN {}
   ELSE IF id \in Range(c) THEN { [res |-> "exists", cache |-> c] }
   ELSE { [res |-> "ok", cache |-> <<id>> \o c] })
  \cup { [res |-> "error", cache |-> c] }

\* ExistsOrStore taking every failure of kv.Create for the key existing
NATSResultSwallow(r) ==
  [exists |-> (r.res # "ok"), err |-> Nil, cache |-> r.cache]

\* what NATSCache.ExistsOrStore returns for an outcome r of kv.Create
NATSResult(r) ==
  IF r.res = "error"
    THEN [exists |-> FALSE, err |-> CacheError, cache |-> r.cache]
    ELSE [exists |-> (r.res = "exists"), err |-> Nil, cache |-> r.cache]

\* NATSCache.ExistsOrStore
NATSExistsOrStore(c, id) == { NATSResult(r) : r \in KVCreate(c, id) }

\* nats.KeyValue.Delete(id): the key is gone, or the store fails
KVDelete(c, id) ==
  { [res |-> "ok", cache |-> Without(c, id)], [res |-> "error", cache |-> c] }

\* NATSCache.Remove: the error of kv.Delete(id) is returned
NATSRemove(c, id) ==
  { [err |-> IF r.res = "error" THEN CacheError ELSE Nil, cache |-> r.cache]
    : r \in KVDelete(c, id) }

\* a cache that looks the ID up and never records it
ExistsOnly(be, c, id) ==
  { [exists |-> id \in Range(c), err |-> Nil, cache |-> c] }

\* p.histcache.ExistsOrStore(ctx, id): the possible (exists, err) results
\* with the cache each leaves behind
ExistsOrStore(be, c, id) ==
  IF be = "local" THEN LocalExistsOrStore(c, id) ELSE NATSExistsOrStore(c, id)

\* ------------------------------------------------- correlation processor
SkipStrategyUpdateOnly == [a \in {GovernorEventUpdate} |-> {Wildcard}]

\* a SkipAll strategy that leaves out the Create action
SkipAllButCreate == [a \in Actions \ {GovernorEventCreate} |-> {Wildcard}]

SkipStrategySkipAll == [a \in Actions |-> {Wildcard}]

\* ShouldSkip that looks the subject up and forgets the wildcard
ShouldSkipNoWildcard(be, sr, c, cid, action, subj) ==
  { IF r.err # Nil THEN [skip |-> FALSE, err |-> r.err, cache |-> r.cache]
    ELSE IF ~r.exists THEN [skip |-> FALSE, err |-> Nil, cache |-> r.cache]
    ELSE IF action \in DOMAIN sr /\ subj \in sr[action]
      THEN [skip |-> TRUE, err |-> Nil, cache |-> r.cache]
    ELSE [skip |-> FALSE, err |-> Nil, cache |-> r.cache]
    : r \in ExistsOrStore(be, c, cid) }

\* ShouldSkip that skips a seen ID for every subject of a listed action
ShouldSkipAnySubject(be, sr, c, cid, action, subj) ==
  { IF r.err # Nil THEN [skip |-> FALSE, err |-> r.err, cache |-> r.cache]
    ELSE [skip |-> r.exists /\ action \in DOMAIN sr, err |-> Nil, cache |-> r.cache]
    : r \in ExistsOrStore(be, c, cid) }

\* ShouldSkip(ctx, cid, action, subj): the possible (skip, err) results with
\* the cache each leaves behind
ShouldSkip(be, sr, c, cid, action, subj) ==
  { IF r.err # Nil THEN [skip |-> FALSE, err |-> r.err, cache |-> r.cache]
    ELSE IF ~r.exists THEN [skip |-> FALSE, err |-> Nil, cache |-> r.cache]
    ELSE IF action \in DOMAIN sr /\ Wildcard \in sr[action]
      THEN [skip |-> TRUE, err |-> Nil, cache |-> r.cache]
    ELSE IF action \in DOMAIN sr /\ subj \in sr[action]
      THEN [skip |-> TRUE, err |-> Nil, cache |-> r.cache]
    ELSE [skip |-> FALSE, err |-> Nil, cache |-> r.cache]
    : r \in ExistsOrStore(be, c, cid) }

\* the correlation ID MWInjectCorrelationID reads from the event
ExtractCorrelationID(event) ==
  IF event.Headers # NilHeaders THEN HeaderGet(event.Headers) ELSE ""

\* the middleware going on to next when ShouldSkip returns an error
MWInjectIgnoringError(be, sr, c, ctx, event) ==
  LET cid == ExtractCorrelationID(event)
      subj == GetSubjectFromContext(ctx)
  IN  { IF subj # "" /\ cid # "" /\ r.skip
          THEN [do |-> "return", err |-> Nil, cerr |-> r.err, ctx |-> ctx,
                cache |-> r.cache]
        ELSE [do |-> "next", err |-> Nil, cerr |-> r.err,
              ctx |-> InjectCorrelationID(ctx, cid), cache |-> r.cache]
        : r \in ShouldSkip(be, sr, c, cid, event.Action, subj) }

\* MWInjectCorrelationID, up to its call of next: the possible outcomes.
\* "return" leaves the middleware with err without calling next; "next"
\* calls next with the context nextctx.  cerr is the error ShouldSkip
\* returned.
MWInjectCorrelationID(be, sr, c, ctx, event) ==
  LET cid == ExtractCorrelationID(event)
      subj == GetSubjectFromContext(ctx)
  IN  { IF r.err # Nil
          THEN [do |-> "return", err |-> r.err, cerr |-> r.err, ctx |-> ctx,
                cache |-> r.cache]
        ELSE IF subj # "" /\ cid # "" /\ r.skip
          THEN [do |-> "return", err |-> Nil, cerr |-> Nil, ctx |-> ctx,
                cache |-> r.cache]
        ELSE [do |-> "next", err |-> Nil, cerr |-> Nil,
              ctx |-> InjectCorrelationID(ctx, cid), cache |-> r.cache]
        : r \in ShouldSkip(be, sr, c, cid, event.Action, subj) }

\* ------------------------------------- correlation processor, map-backed
\* ShouldSkip(cid, action, subj) of the processor whose history is the map
\* histcache: it reads the map and leaves it as it is
MapShouldSkip(sr, c, cid, action, subj) ==
  IF cid \notin Range(c) THEN FALSE
  ELSE IF action \in DOMAIN sr /\ Wildcard \in sr[action] THEN TRUE
  ELSE IF action \in DOMAIN sr /\ subj \in sr[action] THEN TRUE
  ELSE FALSE

\* addToCache(cid): p.histcache[cid] = struct{}{}
addToCache(c, cid) == IF cid \in Range(c) THEN c ELSE <<cid>> \o c

\* MWInjectCorrelationID of that processor, up to its call of next; the ID
\* is added to the map after next has returned
MWInjectCorrelationIDMap(sr, c, ctx, event) ==
  LET cid == ExtractCorrelationID(event)
      subj == GetSubjectFromContext(ctx)
  IN  IF subj # "" /\ cid # "" /\ MapShouldSkip(sr, c, cid, event.Action, subj)
        THEN [do |-> "return", err |-> Nil, ctx |-> ctx]
      ELSE [do |-> "next", err |-> Nil, ctx |-> InjectCorrelationID(ctx, cid)]

\* ----------------------------------------------------------------- calls
\* The Process call of one goroutine.
\*   st       "idle" (no call), "run" (going in), "ret" (coming out), "done"
\*   todo     the handler still to be called: middlewares to enter, then h
\*   stack    the middlewares entered and not yet left, innermost first
\*   err      the error being returned
\*   log      the entry and exit marks of the middlewares and the handler call
\* and, as history of the call:
\*   invoked  the handler functions run, in order;  hret  what each returned
\*   touched  the history cache was consulted;  cerr  the error it returned
\*   nth      dispatched deliveries of the same correlation ID before this one
\*   conc     another delivery of the same correlation ID was in flight with it
\*   spans    the spans the trace-context middleware started and has not ended
\*   tret     per return of the trace-context middleware, << the error its
\*            handler returned, the error it returned >>
\*   out      per header map an outbound request can start with, the header
\*            map it has after the round tripper, when the handler makes the
\*            request with its context
\*   forgot   the correlation ID was removed, evicted or expired since its dispatch
\*   seen     the contexts ShouldSkip was called with, in order
IdleCall ==
  [st |-> "idle", subj |-> "", event |-> Event(GovernorEventCreate, NilHeaders),
   ctx |-> Background, todo |-> HandlerFunc(0), stack |-> <<>>, err |-> Nil,
   log |-> <<>>, invoked |-> <<>>, hret |-> <<>>, touched |-> FALSE,
   cerr |-> Nil, nth |-> 0, conc |-> FALSE, forgot |-> FALSE,
   spans |-> 0, tret |-> <<>>, out |-> <<>>, seen |-> <<>>]

Mark(op, mw) == [op |-> op, mw |-> mw]

InFlight(c) == c.st \in {"run", "ret"}

\* no Process call and no Subjects call is under way
AllIdle == (\A p \in Procs : calls[p].st = "idle") /\ subjs = <<>>

Min(a, b) == IF a < b THEN a ELSE b

\* no Process call is between its dispatch and its return
NoneInFlight == (\A p \in Procs : ~InFlight(calls[p])) /\ subjs = <<>>

\* the goroutine a new message is dispatched on: goroutines are alike, so
\* the first free one stands for any
FreeProc ==
  IF \E p \in Procs : calls[p].st = "idle"
    THEN CHOOSE p \in Procs :
           calls[p].st = "idle" /\ \A q \in Procs : calls[q].st = "idle" => p <= q
    ELSE CHOOSE p \in Procs : \A q \in Procs : p <= q

\* history: the IDs in c that are no longer in d were forgotten
Forgotten(c, d) == Range(c) \ Range(d)

ForgetIn(cs, ids) ==
  [p \in Procs |->
     IF cs[p].st # "idle" /\ ExtractCorrelationID(cs[p].event) \in ids
       THEN [cs[p] EXCEPT !.forgot = TRUE] ELSE cs[p]]

ForgetHist(h, ids, cs) ==
  [id \in DOMAIN h |->
     IF id \notin ids THEN h[id]
     ELSE IF \E p \in Procs : /\ cs[p].st = "run" /\ ~cs[p].touched
                              /\ ExtractCorrelationID(cs[p].event) = id
       THEN 3
     ELSE 0]

\* Dispatch with the action of the event ignored when the subject has a
\* handler for another action
DispatchOtherAction(rt, chain, subj, event) ==
  IF subj \notin DOMAIN rt
    THEN [rt |-> rt, st |-> "done", err |-> ErrHandlerNotFound, ctx |-> Background,
          todo |-> HandlerFunc(0)]
  ELSE IF event.Action \in DOMAIN rt[subj]
    THEN [rt |-> rt, st |-> "run", err |-> Nil,
          ctx |-> SaveSubjectToContext(Background, subj),
          todo |-> MwChain(chain,
                     rt[subj][IF DOMAIN rt[subj] = {event.Action} THEN event.Action
                              ELSE CHOOSE a \in DOMAIN rt[subj] : a # event.Action])]
  ELSE [rt |-> rt, st |-> "done", err |-> Nil,
        ctx |-> SaveSubjectToContext(Background, subj), todo |-> HandlerFunc(0)]

\* Dispatch without the test for an unknown subject: the lookup of the
\* action in the missing entry finds nothing, and nil is returned
DispatchUnchecked(rt, chain, subj, event) ==
  IF subj \in DOMAIN rt /\ event.Action \in DOMAIN rt[subj]
    THEN [rt |-> rt, st |-> "run", err |-> Nil,
          ctx |-> SaveSubjectToContext(Background, subj),
          todo |-> MwChain(chain, rt[subj][event.Action])]
  ELSE [rt |-> rt, st |-> "done", err |-> Nil,
        ctx |-> SaveSubjectToContext(Background, subj), todo |-> HandlerFunc(0)]

\* Dispatch falling back on another handler of the subject when the action
\* of the event has none
DispatchFallback(rt, chain, subj, event) ==
  IF subj \notin DOMAIN rt
    THEN [rt |-> rt, st |-> "done", err |-> ErrHandlerNotFound, ctx |-> Background,
          todo |-> HandlerFunc(0)]
  ELSE [rt |-> rt, st |-> "run", err |-> Nil,
        ctx |-> SaveSubjectToContext(Background, subj),
        todo |-> MwChain(chain,
                   rt[subj][IF event.Action \in DOMAIN rt[subj] THEN event.Action
                            ELSE CHOOSE a \in DOMAIN rt[subj] : TRUE])]

\* Dispatch whose lookup of an action in the entry of a subject leaves a nil
\* handler behind when the action is not bound
DispatchInserting(rt, chain, subj, event) ==
  IF subj \notin DOMAIN rt
    THEN [rt |-> rt, st |-> "done", err |-> ErrHandlerNotFound, ctx |-> Background,
          todo |-> HandlerFunc(0)]
  ELSE IF event.Action \in DOMAIN rt[subj]
    THEN [rt |-> rt, st |-> "run", err |-> Nil,
          ctx |-> SaveSubjectToContext(Background, subj),
          todo |-> MwChain(chain, rt[subj][event.Action])]
  ELSE [rt |-> AddRoute(rt, event.Action, subj, HandlerFunc(0), <<>>),
        st |-> "done", err |-> Nil,
        ctx |-> SaveSubjectToContext(Background, subj), todo |-> HandlerFunc(0)]

\* Dispatch running the global middleware chain, around a handler that does
\* nothing, when the action of the event has no handler
DispatchThroughChain(rt, chain, subj, event) ==
  IF subj \notin DOMAIN rt
    THEN [rt |-> rt, st |-> "done", err |-> ErrHandlerNotFound, ctx |-> Background,
          todo |-> HandlerFunc(0)]
  ELSE [rt |-> rt, st |-> "run", err |-> Nil,
        ctx |-> SaveSubjectToContext(Background, subj),
        todo |-> MwChain(chain, IF event.Action \in DOMAIN rt[subj]
                                  THEN rt[subj][event.Action]
                                  ELSE HandlerFunc(0))]

\* the call c returned from Process at the lookup of the action of its
\* event: the subject has handlers, the action has none
Unhandled(c) ==
  /\ c.st = "done" /\ c.err = Nil /\ c.log = <<>>
  /\ c.ctx = SaveSubjectToContext(Background, c.subj)

\* Router.Process up to the call of the composed handler: what the call
\* returns at once ("done" with err), or the handler it goes on to call,
\* and the route table rt the lookups leave behind
Dispatch(rt, chain, subj, event) ==
  IF subj \notin DOMAIN rt
    THEN [rt |-> rt, st |-> "done", err |-> ErrHandlerNotFound, ctx |-> Background,
          todo |-> HandlerFunc(0)]
  ELSE IF event.Action \in DOMAIN rt[subj]
    THEN [rt |-> rt, st |-> "run", err |-> Nil,
          ctx |-> SaveSubjectToContext(Background, subj),
          todo |-> MwChain(chain, rt[subj][event.Action])]
  ELSE [rt |-> rt, st |-> "done", err |-> Nil,
        ctx |-> SaveSubjectToContext(Background, subj), todo |-> HandlerFunc(0)]

\* goroutine p calls r.Process(ctx, subj, event): what it does to the router
ProcessStep(p, subj, event) ==
  /\ calls[p].st = "idle"
  /\ LET d == Dispatch(routes, mwchain, subj, event)
         cid == ExtractCorrelationID(event)
         others == { q \in Procs \ {p} :
                       InFlight(calls[q]) /\ ExtractCorrelationID(calls[q].event) = cid }
         mine == [IdleCall EXCEPT !.st = d.st, !.subj = subj, !.event = event,
                                  !.ctx = d.ctx, !.todo = d.todo, !.err = d.err,
                                  !.nth = IF d.st = "run" /\ cid # "" THEN hist[cid] ELSE 0,
                                  !.conc = (d.st = "run" /\ others # {})]
     IN  /\ calls' = [q \in Procs |->
                        IF q = p THEN mine
                        ELSE IF d.st = "run" /\ q \in others
                          THEN [calls[q] EXCEPT !.conc = TRUE]
                        ELSE calls[q]]
         /\ hist' = IF d.st = "run" /\ cid # ""
                      THEN [hist EXCEPT ![cid] = IF @ = 3 THEN 3 ELSE Min(2, @ + 1)]
                      ELSE hist
         /\ routes' = d.rt
  /\ UNCHANGED << mwchain, skippableRoutes, backend, cache, subjs, regs >>

\* goroutine p calls r.Process(ctx, subj, event)
ProcessCall(p, subj, event) ==
  /\ ProcessStep(p, subj, event)
  /\ UNCHANGED << cvars, svars >>

\* st after control comes back to whatever is on the stack
Back(stack) == IF stack = <<>> THEN "done" ELSE "ret"

\* goroutine p enters the outermost middleware not yet entered
Enter(p) ==
  /\ calls[p].st = "run"
  /\ calls[p].todo.mws # <<>>
  /\ LET c == calls[p]
         mw == Head(c.todo.mws)
         rest == [c.todo EXCEPT !.mws = Tail(@)]
     IN  IF mw = MWCorrelationID
           THEN \E o \in MWInjectCorrelationID(backend, skippableRoutes, cache,
                                               c.ctx, c.event) :
                  LET gone == Forgotten(cache, o.cache)
                      mine == IF o.do = "next"
                                THEN [c EXCEPT !.todo = rest, !.ctx = o.ctx,
                                               !.stack = <<mw>> \o @,
                                               !.log = Append(@, Mark("enter", mw)),
                                               !.seen = Append(@, c.ctx),
                                               !.touched = TRUE, !.cerr = o.cerr]
                                ELSE [c EXCEPT !.st = Back(c.stack), !.err = o.err,
                                               !.log = @ \o << Mark("enter", mw),
                                                              Mark("exit", mw) >>,
                                               !.seen = Append(@, c.ctx),
                                               !.touched = TRUE, !.cerr = o.cerr]
                  IN  /\ cache' = o.cache
                      /\ calls' = [ForgetIn(calls, gone) EXCEPT ![p] = mine]
                      /\ hist' = ForgetHist(hist, gone, calls)
         ELSE IF mw = MWCorrelationIDMap
           THEN LET o == MWInjectCorrelationIDMap(skippableRoutes, cache, c.ctx, c.event)
                IN  /\ calls' = [calls EXCEPT ![p] =
                          IF o.do = "next"
                            THEN [c EXCEPT !.todo = rest, !.ctx = o.ctx,
                                           !.stack = <<mw>> \o @,
                                           !.log = Append(@, Mark("enter", mw))]
                            ELSE [c EXCEPT !.st = Back(c.stack), !.err = o.err,
                                           !.log = @ \o << Mark("enter", mw),
                                                          Mark("exit", mw) >>]]
                    /\ UNCHANGED << cache, hist >>
         ELSE /\ calls' = [calls EXCEPT ![p] =
                             [c EXCEPT !.todo = rest, !.stack = <<mw>> \o @,
                                       !.log = Append(@, Mark("enter", mw)),
                                       !.ctx = IF mw = MWTraceContext
                                                 THEN StartSpan(@) ELSE @,
                                       !.spans = IF mw = MWTraceContext
                                                   THEN @ + 1 ELSE @]]
              /\ UNCHANGED << cache, hist >>
  /\ UNCHANGED << routes, mwchain, skippableRoutes, backend, subjs, regs >>
  /\ UNCHANGED << cvars, svars >>

\* goroutine p runs the registered handler function, which returns r
Invoke(p) ==
  /\ calls[p].st = "run"
  /\ calls[p].todo.mws = <<>>
  /\ LET c == calls[p]
     IN  \E r \in HandlerResults :
           calls' = [calls EXCEPT ![p] =
                       [c EXCEPT !.st = Back(c.stack), !.err = r,
                                 !.invoked = Append(@, c.todo.h),
                                 !.hret = Append(@, r),
                                 !.out = [h \in RequestHeaders |->
                                            WithCorrelationID(
                                              [ctx |-> c.ctx, Header |-> h]).Header],
                                 !.log = Append(@, Mark("call", "handler"))]]
  /\ UNCHANGED << routes, mwchain, skippableRoutes, backend, cache, subjs, regs, hist >>
  /\ UNCHANGED << cvars, svars >>

\* a middleware that returns nil whatever its next returned
ExitNil(p) ==
  /\ calls[p].st = "ret"
  /\ LET c == calls[p]
     IN  calls' = [calls EXCEPT ![p] =
                     [c EXCEPT !.st = Back(Tail(c.stack)), !.stack = Tail(@),
                               !.err = Nil,
                               !.log = Append(@, Mark("exit", Head(c.stack)))]]
  /\ UNCHANGED << routes, mwchain, skippableRoutes, backend, cache, subjs, regs, hist >>
  /\ UNCHANGED << cvars, svars >>

\* the trace-context middleware ending its span only when its handler
\* returned nil
TraceReturnLeaky(c) ==
  [c EXCEPT !.spans = IF c.err = Nil THEN @ - 1 ELSE @,
            !.tret = Append(@, << c.err, c.err >>)]

\* the call c as mwInjectTraceContext leaves it: `return handler(tracectx,
\* event)` with the deferred span.End()
TraceReturn(c) ==
  [c EXCEPT !.spans = @ - 1, !.tret = Append(@, << c.err, c.err >>)]

\* goroutine p leaves the innermost middleware it is in, which returns the
\* error its next returned; the map-backed correlation middleware adds the
\* ID to its map on the way
Exit(p) ==
  /\ calls[p].st = "ret"
  /\ LET c == calls[p]
         left == IF Head(c.stack) = MWTraceContext THEN TraceReturn(c) ELSE c
     IN  /\ calls' = [calls EXCEPT ![p] =
                        [left EXCEPT !.st = Back(Tail(c.stack)), !.stack = Tail(@),
                                     !.log = Append(@, Mark("exit", Head(c.stack)))]]
         /\ cache' = IF Head(c.stack) = MWCorrelationIDMap
                       THEN addToCache(cache, ExtractCorrelationID(c.event))
                       ELSE cache
  /\ UNCHANGED << routes, mwchain, skippableRoutes, backend, subjs, regs, hist >>
  /\ UNCHANGED << cvars, svars >>

\* goroutine p is at a statement that reads the map histcache
MapReader(p) ==
  /\ calls[p].st = "run"
  /\ calls[p].todo.mws # <<>>
  /\ Head(calls[p].todo.mws) = MWCorrelationIDMap
  /\ GetSubjectFromContext(calls[p].ctx) # ""
  /\ ExtractCorrelationID(calls[p].event) # ""

\* goroutine p is at the statement that writes the map histcache
MapWriter(p) ==
  /\ calls[p].st = "ret"
  /\ Head(calls[p].stack) = MWCorrelationIDMap

\* two goroutines access the map at once, one of them writing: a data race,
\* which the runtime may end with a fatal error that stops the process
MapRace ==
  /\ \E p, q \in Procs : p # q /\ MapWriter(p) /\ (MapReader(q) \/ MapWriter(q))
  /\ calls' = [p \in Procs |-> [calls[p] EXCEPT !.st = "dead"]]
  /\ UNCHANGED << routes, mwchain, skippableRoutes, backend, cache, subjs, regs, hist >>
  /\ UNCHANGED << cvars, svars >>

\* the caller of Process has its result; the goroutine is free again
Return(p) ==
  /\ calls[p].st = "done"
  /\ calls' = [calls EXCEPT ![p] = IdleCall]
  /\ UNCHANGED << routes, mwchain, skippableRoutes, backend, cache, subjs, regs, hist >>
  /\ UNCHANGED << cvars, svars >>

\* ----------------------------------------------------------- cache calls
\* A call made on a history cache directly.
\*   pc       "idle" (no call), then the statement the caller is at, "done"
\*   op       "ExistsOrStore" or "Remove";  id  its argument
\*            (or "ShouldSkip", a call on the processor, with action and
\*            subj its other arguments and skip its result)
\*   found    what lc.cache.Get returned;  res  the outcome of kv.Create
\*   exists, err  the results
\* and, as history of the call:
\*   nth      ExistsOrStore calls for the ID that reached the cache before it
\*            (of a call the cache answered)
\*   stale    the ID was removed or expired after the call reached the cache
IdleOp ==
  [pc |-> "idle", op |-> "", id |-> "", action |-> "", subj |-> "",
   found |-> FALSE, res |-> "", exists |-> FALSE, skip |-> FALSE, err |-> Nil,
   nth |-> 0, stale |-> FALSE]

\* the router specifications make no direct cache calls
NoCacheCalls ==
  /\ lc = <<>>
  /\ mu = 0
  /\ kv = <<>>
  /\ ops = [c \in Callers |-> IdleOp]
  /\ both = <<>>
  /\ since = [id \in CacheIDs |-> [l |-> 0, k |-> 0]]

\* ----------------------------------------------------------------- server
\* Server.Run.
\*   pc       "new" (Run not called), "bootstrap" (in Bootstrap, before it
\*            has the two lists of ERDs), "erds" (in its loop over the
\*            local ERDs), "register" (in its loop over the processors),
\*            "subscribe" (in Subscribe), "listen" (Subscribe has returned,
\*            ListenEvents not started), "listening" (ListenEvents in its
\*            loop), "stopped" (ListenEvents has returned), "returned" (Run
\*            returned the error of Bootstrap)
\*   err      what Run returned
\*   next     the index in Server.processors of the next one to register
\*   order    the slice Subjects() returned to Subscribe
\*   asked    the subjects eventClient.Subscribe was called with, in order
\*   suberr   what Subscribe returned
\*   logged   the Process errors ListenEvents has logged
\*   cancelled  the context of Run is done
\*   status   Server.status, which the readiness endpoint reports
\*   localERDs  the singular slugs of the ERDs read from the local directory
\*   govERDsSet the singular slugs of the ERDs governor has listed
\*   erd      the index in localERDs of the next ERD of the loop
\*   requests the requests made to governor for ERDs, in order, each with
\*            the error it returned
IdleServer ==
  [pc |-> "new", err |-> Nil, next |-> 1, order |-> <<>>, asked |-> <<>>,
   suberr |-> Nil, logged |-> {}, cancelled |-> FALSE,
   status |-> StatusNone, localERDs |-> <<>>, govERDsSet |-> {}, erd |-> 1,
   requests |-> <<>>]

\* -------------------------------------------------------------- NATS client
\* fmt.Sprintf("%s.%s", prefix, subject)
Sprintf(prefix, subject) == prefix \o "." \o subject

HasPrefix(str, pre) == Len(str) >= Len(pre) /\ SubSeq(str, 1, Len(pre)) = pre

\* a TrimPrefix that returns the string it was given
TrimPrefixNone(str, pre) == str

\* strings.TrimPrefix(str, pre)
TrimPrefix(str, pre) ==
  IF HasPrefix(str, pre) THEN SubSeq(str, Len(pre) + 1, Len(str)) ELSE str

\* a payload: whether it is a JSON document, and the action in it.
\* Garbage is one that is no JSON document
Garbage == [json |-> FALSE, Action |-> ""]

\* json.Marshal(event): the document has the fields of the event, and the
\* headers are not among them
Marshal(event) == [json |-> TRUE, Action |-> event.Action]

\* json.Unmarshal(data, event) on a new Event: err, and the event as the
\* call leaves it
Unmarshal(data) ==
  IF ~data.json
    THEN [err |-> UnmarshalError, event |-> Event("", NilHeaders)]
    ELSE [err |-> Nil, event |-> Event(data.Action, NilHeaders)]

\* a subscription of the client and the callback nats runs for it, one
\* message at a time:
\*   subject  the NATS subject subscribed to;  for  the subject Subscribe
\*            was called with
\*   active   not unsubscribed
\*   pc       "idle" (no message in the callback), "send" (the callback is
\*            at `c.messagesChan <- msg`)
\*   msg      the EventMessage it sends
Subscription(subject, for) ==
  [subject |-> subject, for |-> for, active |-> TRUE, pc |-> "idle",
   msg |-> [Subject |-> "", Event |-> Event("", NilHeaders)]]

\* The client and the listener:
\*   pc       "new"; "subscribe" (Server.Subscribe is in its loop), "listen"
\*            (ListenEvents is in its loop), "returned" (it has returned)
\*   todo     the subjects Server.Subscribe has yet to subscribe to
\*   suberr   the error Server.Subscribe returned
\*   cancelled  the context of Run is done
\*   unsub    in Shutdown, the index of the subscription to unsubscribe
\*            next; 0 before Shutdown
\*   drained  conn.Drain() was called
\*   dropped  a callback has returned at the error of Unmarshal
IdleClient ==
  [pc |-> "new", prefix |-> "", queueSize |-> 0, subscriptions |-> <<>>,
   todo |-> <<>>, suberr |-> Nil, cancelled |-> FALSE, unsub |-> 0,
   drained |-> FALSE, dropped |-> FALSE]

\* the specifications of the router and the caches run no server, and
\* nothing is forgotten at the start
NoServer == server = IdleServer /\ lost = {} /\ nc = IdleClient

\* ------------------------------------------------------------------ setup
\* one of Create .. Revoke: addRoute(action, subj, handler, middlewares),
\* the handler being a function not registered before
Register(action, subj, middlewares) ==
  /\ AllIdle
  /\ Len(regs) < MaxRoutes
  /\ routes' = AddRoute(routes, action, subj, HandlerFunc(Len(regs) + 1), middlewares)
  /\ regs' = Append(regs, [action |-> action, subj |-> subj, h |-> Len(regs) + 1,
                           mws |-> middlewares])
  /\ UNCHANGED << mwchain, skippableRoutes, backend, cache, calls, subjs, hist >>
  /\ UNCHANGED << cvars, svars >>

\* Router.Use(mw)
UseMiddleware(mw) ==
  /\ AllIdle
  /\ Len(mwchain) < MaxUse
  /\ mwchain' = ApplyGlobalMiddleware(mwchain, mw)
  /\ UNCHANGED << routes, skippableRoutes, backend, cache, calls, subjs, regs, hist >>
  /\ UNCHANGED << cvars, svars >>

\* Router.Subjects()
Subjects ==
  /\ AllIdle
  /\ \E out \in SubjectsOf(routes) : subjs' = <<out>>
  /\ UNCHANGED << routes, mwchain, skippableRoutes, backend, cache, calls, regs, hist >>
  /\ UNCHANGED << cvars, svars >>

\* the caller of Subjects has its result
SubjectsReturned ==
  /\ subjs # <<>>
  /\ subjs' = <<>>
  /\ UNCHANGED << routes, mwchain, skippableRoutes, backend, cache, calls, regs, hist >>
  /\ UNCHANGED << cvars, svars >>

\* ----------------------------------------------------------- environment
\* an entry of the history cache passes its TTL (local) or is expired by
\* the store (NATS)
Expire ==
  \E id \in Range(cache) :
    /\ cache' = Without(cache, id)
    /\ calls' = ForgetIn(calls, {id})
    /\ hist' = ForgetHist(hist, {id}, calls)
    /\ UNCHANGED << routes, mwchain, skippableRoutes, backend, subjs, regs >>
    /\ UNCHANGED << cvars, svars >>

\* --------------------------------------------------------- specification
\* Spec: a router is built, routes are registered on it, and one goroutine
\* dispatches events through it.

\* the option lists NewRouter is called with
RouterOptions == { <<"A">>, <<MWCorrelationID, "A">> }

\* the middleware lists a registration is called with
RouteMiddlewares == { <<>> }

Events ==
  { Event(a, HeadersWith("abc")) : a \in Actions }

Init ==
  /\ routes = << >>
  /\ mwchain \in { NewRouter(o) : o \in RouterOptions }
  /\ skippableRoutes = SkipStrategyUpdateOnly
  /\ backend = "local"
  /\ cache = <<>>
  /\ calls = [p \in Procs |-> IdleCall]
  /\ subjs = <<>>
  /\ regs = <<>>
  /\ hist = [id \in Cids \ {""} |-> 0]
  /\ NoCacheCalls
  /\ NoServer

Create ==
  \E subj \in RouteSubjects, mws \in RouteMiddlewares :
    Register(GovernorEventCreate, subj, mws)

Update ==
  \E subj \in RouteSubjects, mws \in RouteMiddlewares :
    Register(GovernorEventUpdate, subj, mws)

Delete ==
  \E subj \in RouteSubjects, mws \in RouteMiddlewares :
    Register(GovernorEventDelete, subj, mws)

Approve ==
  \E subj \in RouteSubjects, mws \in RouteMiddlewares :
    Register(GovernorEventApprove, subj, mws)

Deny ==
  \E subj \in RouteSubjects, mws \in RouteMiddlewares :
    Register(GovernorEventDeny, subj, mws)

Revoke ==
  \E subj \in RouteSubjects, mws \in RouteMiddlewares :
    Register(GovernorEventRevoke, subj, mws)

Process ==
  /\ AllIdle
  /\ \E subj \in EventSubjects, event \in Events : ProcessCall(FreeProc, subj, event)

Step == \E p \in Procs : Enter(p) \/ Invoke(p) \/ Exit(p)

Returned == \E p \in Procs : Return(p)

Next ==
  \/ Create \/ Update \/ Delete \/ Approve \/ Deny \/ Revoke
  \/ Subjects \/ SubjectsReturned
  \/ Process
  \/ Step
  \/ Returned

Spec == Init /\ [][Next]_vars

\* SpecMW: a router with one route, on which global middlewares are added
\* with Use, and one goroutine dispatching through it.

\* the middleware lists the route is registered with
MWRouteMiddlewares == { <<>>, <<"m1">>, <<"m1", "m2">>, <<"m2", "m1">> }

\* the middlewares Use is called with
GlobalMiddlewares == UserMiddlewares \cup { MWCorrelationID, MWTraceContext }

MWEvents ==
  { Event(a, HeadersWith("abc")) : a \in { GovernorEventUpdate, GovernorEventCreate } }

InitMW ==
  /\ \E mws \in MWRouteMiddlewares :
       /\ routes = AddRoute(<< >>, GovernorEventUpdate, "groups", HandlerFunc(1), mws)
       /\ regs = << [action |-> GovernorEventUpdate, subj |-> "groups", h |-> 1,
                     mws |-> mws] >>
  /\ mwchain = NewRouter(<<>>)
  /\ skippableRoutes = SkipStrategyUpdateOnly
  /\ backend = "local"
  /\ cache = <<>>
  /\ calls = [p \in Procs |-> IdleCall]
  /\ subjs = <<>>
  /\ hist = [id \in Cids \ {""} |-> 0]
  /\ NoCacheCalls
  /\ NoServer

Use == \E mw \in GlobalMiddlewares : UseMiddleware(mw)

ProcessMW ==
  /\ AllIdle
  /\ \E event \in MWEvents : ProcessCall(FreeProc, "groups", event)

NextMW == Use \/ ProcessMW \/ Step \/ Returned

SpecMW == InitMW /\ [][NextMW]_vars

\* SpecCid: the router of a running service, with the correlation-ID
\* processor as a global middleware; events are dispatched through it one
\* after the other, each after the one before has returned.

\* a custom skip strategy: updates of groups only
SkipStrategyCustom == [a \in {GovernorEventUpdate} |-> {"groups"}]

SkipStrategies == { SkipStrategyUpdateOnly, SkipStrategySkipAll, SkipStrategyCustom }

CidRegistrations ==
  << [action |-> GovernorEventUpdate, subj |-> "groups", h |-> 1, mws |-> <<>>],
     [action |-> GovernorEventCreate, subj |-> "groups", h |-> 2, mws |-> <<>>],
     [action |-> GovernorEventUpdate, subj |-> "users", h |-> 3, mws |-> <<>>],
     [action |-> GovernorEventUpdate, subj |-> "", h |-> 4, mws |-> <<>>] >>

\* the routes after the registrations rs, made in order
RECURSIVE Registered(_)
Registered(rs) ==
  IF rs = <<>> THEN << >>
  ELSE LET r == Last(rs)
       IN  AddRoute(Registered(Front(rs)), r.action, r.subj, HandlerFunc(r.h), r.mws)

CidSubjects == { "groups", "" }

CidEvents ==
  { Event(a, h) : a \in { GovernorEventUpdate, GovernorEventCreate },
                  h \in SomeHeaders }

InitCid ==
  /\ routes = Registered(CidRegistrations)
  /\ regs = CidRegistrations
  /\ mwchain = NewRouter(<<MWCorrelationID>>)
  /\ skippableRoutes \in SkipStrategies
  /\ backend \in { "local", "nats" }
  /\ cache = <<>>
  /\ calls = [p \in Procs |-> IdleCall]
  /\ subjs = <<>>
  /\ hist = [id \in Cids \ {""} |-> 0]
  /\ NoCacheCalls
  /\ NoServer

ProcessCid ==
  /\ NoneInFlight
  /\ \E subj \in CidSubjects, event \in CidEvents :
       ProcessCall(FreeProc, subj, event)

NextCid == ProcessCid \/ Step \/ Returned \/ Expire

SpecCid == InitCid /\ [][NextCid]_vars

\* SpecConc: the same router, with two goroutines dispatching events
\* through it concurrently.

ConcSubjects == { "groups", "users" }

ConcEvents ==
  { Event(a, HeadersWith("abc")) : a \in { GovernorEventUpdate, GovernorEventCreate } }

ProcessConc ==
  \E subj \in ConcSubjects, event \in ConcEvents :
    ProcessCall(FreeProc, subj, event)

NextConc == ProcessConc \/ Step \/ Returned \/ Expire

SpecConc == InitCid /\ [][NextConc]_vars

\* SpecUnbound: the same router, with events for "users", which has a
\* handler for updates only, dispatched one after the other.

UnboundSubjects == { "users" }

ProcessUnbound ==
  /\ NoneInFlight
  /\ \E subj \in UnboundSubjects, event \in ConcEvents :
       ProcessCall(FreeProc, subj, event)

NextUnbound == ProcessUnbound \/ Step \/ Returned

SpecUnbound == InitCid /\ [][NextUnbound]_vars

\* SpecVariants: the router with either variant of the correlation
\* middleware, the cache-backed one or the map-backed one, and two
\* goroutines dispatching events through it concurrently.

CorrelationVariants == { MWCorrelationID, MWCorrelationIDMap }

InitVariants ==
  /\ routes = Registered(CidRegistrations)
  /\ regs = CidRegistrations
  /\ \E mw \in CorrelationVariants : mwchain = NewRouter(<<mw>>)
  /\ skippableRoutes = SkipStrategyUpdateOnly
  /\ backend \in { "local", "nats" }
  /\ cache = <<>>
  /\ calls = [p \in Procs |-> IdleCall]
  /\ subjs = <<>>
  /\ hist = [id \in Cids \ {""} |-> 0]
  /\ NoCacheCalls
  /\ NoServer

NextVariants == ProcessConc \/ Step \/ Returned \/ MapRace

SpecVariants == InitVariants /\ [][NextVariants]_vars

\* the ExistsOrStore calls for id that are made and have not reached Get
Arriving(id) ==
  { c \in Callers : /\ ops[c].op = "ExistsOrStore" /\ ops[c].id = id
                    /\ ops[c].pc \in { "lock", "get" } }

\* a history with the calls for id that are past the cache marked stale
StaleIn(os, id, pcs) ==
  [c \in Callers |->
     IF os[c].id = id /\ os[c].pc \in pcs THEN [os[c] EXCEPT !.stale = TRUE]
     ELSE os[c]]

\* SpecStrategy: a router with a handler for each of the six actions of one
\* subject and the correlation-ID processor as a global middleware; events
\* are dispatched through it one after the other.

StrategyRegistrations ==
  << [action |-> GovernorEventCreate, subj |-> "groups", h |-> 1, mws |-> <<>>],
     [action |-> GovernorEventUpdate, subj |-> "groups", h |-> 2, mws |-> <<>>],
     [action |-> GovernorEventDelete, subj |-> "groups", h |-> 3, mws |-> <<>>],
     [action |-> GovernorEventApprove, subj |-> "groups", h |-> 4, mws |-> <<>>],
     [action |-> GovernorEventDeny, subj |-> "groups", h |-> 5, mws |-> <<>>],
     [action |-> GovernorEventRevoke, subj |-> "groups", h |-> 6, mws |-> <<>>] >>

StrategyEvents == { Event(a, HeadersWith("abc")) : a \in Actions }

InitStrategy ==
  /\ routes = Registered(StrategyRegistrations)
  /\ regs = StrategyRegistrations
  /\ mwchain = NewRouter(<<MWCorrelationID>>)
  /\ skippableRoutes \in { SkipStrategyUpdateOnly, SkipStrategySkipAll }
  /\ backend \in { "local", "nats" }
  /\ cache = <<>>
  /\ calls = [p \in Procs |-> IdleCall]
  /\ subjs = <<>>
  /\ hist = [id \in Cids \ {""} |-> 0]
  /\ NoCacheCalls
  /\ NoServer

ProcessStrategy ==
  /\ NoneInFlight
  /\ \E event \in StrategyEvents : ProcessCall(FreeProc, "groups", event)

NextStrategy == ProcessStrategy \/ Step \/ Returned \/ Expire

SpecStrategy == InitStrategy /\ [][NextStrategy]_vars

\* SpecCache: one caller makes the same calls, one after the other, on a
\* local cache and on a NATS-backed cache.

InitCache ==
  /\ routes = << >>
  /\ mwchain = NewRouter(<<>>)
  /\ skippableRoutes = SkipStrategyUpdateOnly
  /\ backend = "local"
  /\ cache = <<>>
  /\ calls = [p \in Procs |-> IdleCall]
  /\ subjs = <<>>
  /\ regs = <<>>
  /\ hist = [id \in Cids \ {""} |-> 0]
  /\ NoCacheCalls
  /\ NoServer

\* the results r of a call, put before those of the call before it
Latest(r) == <<r>> \o (IF both = <<>> THEN <<>> ELSE << both[1] >>)

\* ExistsOrStore(ctx, id) on both caches
ExistsOrStoreBoth ==
  \E id \in CacheIDs :
    /\ since[id].l < MaxCalls /\ since[id].k < MaxCalls
    /\ \E rl \in LocalExistsOrStore(lc, id), rn \in NATSExistsOrStore(kv, id) :
         /\ lc' = rl.cache
         /\ kv' = rn.cache
         /\ both' = Latest([op |-> "ExistsOrStore", id |-> id,
                            local |-> [exists |-> rl.exists, err |-> rl.err],
                            nats |-> [exists |-> rn.exists, err |-> rn.err],
                            nth |-> since[id]])
         /\ since' = [since EXCEPT ![id] =
                        [l |-> @.l + 1,
                         k |-> IF rn.err = Nil THEN @.k + 1 ELSE @.k]]
    /\ UNCHANGED << mu, ops >>
    /\ UNCHANGED << rvars, svars >>

\* Remove(ctx, id) on both caches
RemoveBoth ==
  \E id \in CacheIDs :
    /\ lc' = LocalRemove(lc, id)
    /\ \E rn \in NATSRemove(kv, id) :
         /\ kv' = rn.cache
         /\ both' = Latest([op |-> "Remove", id |-> id,
                            local |-> [exists |-> FALSE, err |-> Nil],
                            nats |-> [exists |-> FALSE, err |-> rn.err],
                            nth |-> since[id]])
         /\ since' = [since EXCEPT ![id] =
                        [l |-> 0, k |-> IF rn.err = Nil THEN 0 ELSE @.k]]
    /\ UNCHANGED << mu, ops >>
    /\ UNCHANGED << rvars, svars >>

\* an entry of the local cache passes its TTL
ExpireLocal ==
  \E id \in Range(lc) :
    /\ lc' = Without(lc, id)
    /\ since' = [since EXCEPT ![id].l = 0]
    /\ ops' = StaleIn(ops, id, { "add", "unlock", "done" })
    /\ UNCHANGED << mu, kv, both >>
    /\ UNCHANGED << rvars, svars >>

\* a key of the bucket passes the bucket's TTL
ExpireKV ==
  \E id \in Range(kv) :
    /\ kv' = Without(kv, id)
    /\ since' = [since EXCEPT ![id].k = 0]
    /\ ops' = StaleIn(ops, id, { "done" })
    /\ UNCHANGED << lc, mu, both >>
    /\ UNCHANGED << rvars, svars >>

NextCache == ExistsOrStoreBoth \/ RemoveBoth \/ ExpireLocal \/ ExpireKV

SpecCache == InitCache /\ [][NextCache]_vars

\* SpecLocal: goroutines call ExistsOrStore and Remove on one LocalCache
\* concurrently; each statement of a call is a step.

\* lc.mu.Lock() goes through with lc.mu free at all times
TryLockFree(m) == TRUE

\* lc.mu.Lock() goes through when lc.mu is unlocked
TryLock(m) == m = 0

\* goroutine c calls lc.ExistsOrStore(ctx, id) or lc.Remove(ctx, id)
LocalCall ==
  \E c \in Callers, op \in { "ExistsOrStore", "Remove" }, id \in CacheIDs :
    /\ ops[c].pc = "idle"
    /\ op = "ExistsOrStore"
         => since[id].l + Cardinality(Arriving(id)) < MaxCalls
    /\ ops' = [ops EXCEPT ![c] = [IdleOp EXCEPT !.pc = "lock", !.op = op, !.id = id]]
    /\ UNCHANGED << lc, mu, kv, both, since >>
    /\ UNCHANGED << rvars, svars >>

\* lc.mu.Lock()
LocalLock ==
  \E c \in Callers :
    /\ ops[c].pc = "lock"
    /\ TryLock(mu)
    /\ mu' = c
    /\ ops' = [ops EXCEPT ![c].pc =
                 IF ops[c].op = "ExistsOrStore" THEN "get" ELSE "remove"]
    /\ UNCHANGED << lc, kv, both, since >>
    /\ UNCHANGED << rvars, svars >>

\* _, exists := lc.cache.Get(id)
LocalGet ==
  \E c \in Callers :
    /\ ops[c].pc = "get"
    /\ LET got == LRUGet(lc, ops[c].id)
       IN  /\ lc' = got.cache
           /\ ops' = [ops EXCEPT ![c] =
                        [ops[c] EXCEPT !.found = got.ok,
                                       !.nth = since[ops[c].id].l,
                                       !.pc = IF got.ok THEN "unlock" ELSE "add"]]
    /\ since' = [since EXCEPT ![ops[c].id].l = @ + 1]
    /\ UNCHANGED << mu, kv, both >>
    /\ UNCHANGED << rvars, svars >>

\* lc.cache.Add(id, struct{}{})
LocalAdd ==
  \E c \in Callers :
    /\ ops[c].pc = "add"
    /\ lc' = LRUAdd(lc, ops[c].id, defaultCacheSize)
    /\ ops' = [ops EXCEPT ![c].pc = "unlock"]
    /\ UNCHANGED << mu, kv, both, since >>
    /\ UNCHANGED << rvars, svars >>

\* lc.cache.Remove(id)
LocalRemoveEntry ==
  \E c \in Callers :
    /\ ops[c].pc = "remove"
    /\ lc' = LocalRemove(lc, ops[c].id)
    /\ since' = [since EXCEPT ![ops[c].id].l = 0]
    /\ ops' = [StaleIn(ops, ops[c].id, { "add", "unlock", "done" })
                 EXCEPT ![c] = [ops[c] EXCEPT !.pc = "unlock"]]
    /\ UNCHANGED << mu, kv, both >>
    /\ UNCHANGED << rvars, svars >>

\* lc.mu.Unlock(), and the return of (exists, nil) or of nil
LocalUnlock ==
  \E c \in Callers :
    /\ ops[c].pc = "unlock"
    /\ mu' = 0
    /\ ops' = [ops EXCEPT ![c] = [ops[c] EXCEPT !.pc = "done",
                                                  !.exists = ops[c].found,
                                                  !.err = Nil]]
    /\ UNCHANGED << lc, kv, both, since >>
    /\ UNCHANGED << rvars, svars >>

\* the caller has the results of its call
OpReturned ==
  \E c \in Callers :
    /\ ops[c].pc = "done"
    /\ ops' = [ops EXCEPT ![c] = IdleOp]
    /\ UNCHANGED << lc, mu, kv, both, since >>
    /\ UNCHANGED << rvars, svars >>

NextLocal ==
  \/ LocalCall \/ LocalLock \/ LocalGet \/ LocalAdd \/ LocalRemoveEntry
  \/ LocalUnlock \/ OpReturned \/ ExpireLocal

SpecLocal == InitCache /\ [][NextLocal]_vars

\* SpecNATS: service replicas, each with its own NATSCache, call
\* ExistsOrStore and Remove on the one bucket they share.

\* the ExistsOrStore calls for id that are made and have not reached the store
ArrivingKV(id) ==
  { c \in Callers : /\ ops[c].op = "ExistsOrStore" /\ ops[c].id = id
                    /\ ops[c].pc = "create" }

\* replica c calls its ExistsOrStore(ctx, id) or Remove(ctx, id)
NATSCall ==
  \E c \in Callers, op \in { "ExistsOrStore", "Remove" }, id \in CacheIDs :
    /\ ops[c].pc = "idle"
    /\ op = "ExistsOrStore"
         => since[id].k + Cardinality(ArrivingKV(id)) < MaxCalls
    /\ ops' = [ops EXCEPT ![c] =
                 [IdleOp EXCEPT !.pc = IF op = "ExistsOrStore" THEN "create"
                                       ELSE "delete",
                                !.op = op, !.id = id]]
    /\ UNCHANGED << lc, mu, kv, both, since >>
    /\ UNCHANGED << rvars, svars >>

\* c.kv.Create(id, []byte{}), executed by the store, and the return of
\* what its outcome maps to
NATSCreate ==
  \E c \in Callers :
    /\ ops[c].pc = "create"
    /\ \E r \in KVCreate(kv, ops[c].id) :
         LET out == NATSResult(r)
         IN  /\ kv' = out.cache
             /\ ops' = [ops EXCEPT ![c] =
                          [ops[c] EXCEPT !.pc = "done", !.res = r.res,
                                         !.exists = out.exists, !.err = out.err,
                                         !.nth = IF out.err = Nil
                                                   THEN since[ops[c].id].k ELSE 0]]
             /\ since' = [since EXCEPT ![ops[c].id].k =
                            IF out.err = Nil THEN @ + 1 ELSE @]
    /\ UNCHANGED << lc, mu, both >>
    /\ UNCHANGED << rvars, svars >>

\* c.kv.Delete(id), executed by the store, and the return of its error
NATSDelete ==
  \E c \in Callers :
    /\ ops[c].pc = "delete"
    /\ \E r \in NATSRemove(kv, ops[c].id) :
         /\ kv' = r.cache
         /\ ops' = [(IF r.err = Nil THEN StaleIn(ops, ops[c].id, { "done" }) ELSE ops)
                      EXCEPT ![c] = [ops[c] EXCEPT !.pc = "done", !.err = r.err]]
         /\ since' = [since EXCEPT ![ops[c].id].k = IF r.err = Nil THEN 0 ELSE @]
    /\ UNCHANGED << lc, mu, both >>
    /\ UNCHANGED << rvars, svars >>

NextNATS == NATSCall \/ NATSCreate \/ NATSDelete \/ OpReturned \/ ExpireKV

SpecNATS == InitCache /\ [][NextNATS]_vars

\* SpecLRU: one goroutine fills a LocalCache beyond its capacity, with IDs
\* numbered in the order of their first use, and removes and checks the
\* first of them.

LRUIDs == 1..MaxIDs

\* the goroutine that makes the calls
OneCaller == CHOOSE c \in Callers : \A d \in Callers : c <= d

\* the IDs stored and not removed since
Stored == { id \in DOMAIN since : since[id].l > 0 }

\* the ID to use next: the first not stored
NextID ==
  IF LRUIDs \ Stored = {} THEN 1
  ELSE CHOOSE id \in LRUIDs \ Stored : \A o \in LRUIDs \ Stored : id <= o

InitLRU ==
  /\ routes = << >>
  /\ mwchain = NewRouter(<<>>)
  /\ skippableRoutes = SkipStrategyUpdateOnly
  /\ backend = "local"
  /\ cache = <<>>
  /\ calls = [p \in Procs |-> IdleCall]
  /\ subjs = <<>>
  /\ regs = <<>>
  /\ hist = [id \in Cids \ {""} |-> 0]
  /\ lc = <<>>
  /\ mu = 0
  /\ kv = <<>>
  /\ ops = [c \in Callers |-> IdleOp]
  /\ both = <<>>
  /\ since = [id \in LRUIDs |-> [l |-> 0, k |-> 0]]
  /\ NoServer

\* lc.ExistsOrStore(ctx, id)
LRUStore ==
  \E id \in { 1, NextID } : \E r \in LocalExistsOrStore(lc, id) :
    /\ lc' = r.cache
    /\ ops' = [ops EXCEPT ![OneCaller] =
                 [IdleOp EXCEPT !.pc = "done", !.op = "ExistsOrStore", !.id = id,
                                !.exists = r.exists, !.err = r.err,
                                !.nth = since[id].l]]
    /\ since' = [since EXCEPT ![id].l = 1]
    /\ UNCHANGED << mu, kv, both >>
    /\ UNCHANGED << rvars, svars >>

\* lc.Remove(ctx, 1)
LRURemove ==
  /\ lc' = LocalRemove(lc, 1)
  /\ ops' = [ops EXCEPT ![OneCaller] =
               [IdleOp EXCEPT !.pc = "done", !.op = "Remove", !.id = 1]]
  /\ since' = [since EXCEPT ![1].l = 0]
  /\ UNCHANGED << mu, kv, both >>
  /\ UNCHANGED << rvars, svars >>

NextLRU == LRUStore \/ LRURemove

SpecLRU == InitLRU /\ [][NextLRU]_vars

\* SpecSkip: one goroutine calls ShouldSkip on a correlation-ID processor,
\* one call after the other.

SkipSubjects == { "groups", "users" }

InitSkip ==
  /\ routes = << >>
  /\ mwchain = NewRouter(<<>>)
  /\ skippableRoutes \in SkipStrategies
  /\ backend \in { "local", "nats" }
  /\ cache = <<>>
  /\ calls = [p \in Procs |-> IdleCall]
  /\ subjs = <<>>
  /\ regs = <<>>
  /\ hist = [id \in Cids \ {""} |-> 0]
  /\ NoCacheCalls
  /\ NoServer

\* the sightings of id the cache of the processor has recorded or answered
Sightings(id) == IF backend = "local" THEN since[id].l ELSE since[id].k

\* the history after one more sighting of id, or with id forgotten
Sighted(id, n) ==
  [since EXCEPT ![id] = IF backend = "local" THEN [@ EXCEPT !.l = n]
                        ELSE [@ EXCEPT !.k = n]]

\* p.ShouldSkip(ctx, id, action, subj)
ShouldSkipCall ==
  \E id \in CacheIDs, action \in Actions, subj \in SkipSubjects :
    /\ Sightings(id) < MaxCalls
    /\ \E r \in ShouldSkip(backend, skippableRoutes, cache, id, action, subj) :
         /\ cache' = r.cache
         /\ ops' = [ops EXCEPT ![OneCaller] =
                      [IdleOp EXCEPT !.pc = "done", !.op = "ShouldSkip", !.id = id,
                                     !.action = action, !.subj = subj,
                                     !.skip = r.skip, !.err = r.err,
                                     !.nth = IF r.err = Nil THEN Sightings(id) ELSE 0]]
         /\ since' = IF r.err = Nil THEN Sighted(id, Sightings(id) + 1) ELSE since
    /\ UNCHANGED << routes, mwchain, skippableRoutes, backend, calls, subjs, regs, hist >>
    /\ UNCHANGED << lc, mu, kv, both, svars >>

\* an ID the processor has seen is evicted from its cache, or expires
ExpireSeen ==
  \E id \in Range(cache) :
    /\ cache' = Without(cache, id)
    /\ since' = Sighted(id, 0)
    /\ ops' = StaleIn(ops, id, { "done" })
    /\ UNCHANGED << routes, mwchain, skippableRoutes, backend, calls, subjs, regs, hist >>
    /\ UNCHANGED << lc, mu, kv, both, svars >>

NextSkip == ShouldSkipCall \/ ExpireSeen

SpecSkip == InitSkip /\ [][NextSkip]_vars

\* SpecForget: the router of SpecCid with the local cache, one goroutine
\* dispatching, and the cache forgetting IDs, which is kept track of.

\* the cache marks an entry as gone and goes on finding it
ForgetTombstone ==
  \E id \in Range(cache) :
    /\ cache' = cache
    /\ calls' = ForgetIn(calls, {id})
    /\ hist' = ForgetHist(hist, {id}, calls)
    /\ lost' = lost \cup {id}
    /\ UNCHANGED << routes, mwchain, skippableRoutes, backend, subjs, regs >>
    /\ UNCHANGED << cvars, server, nc >>

\* the local cache forgets an ID: the entry passes its TTL, or it is the
\* least recently used one when an Add finds the cache full
Forget ==
  \E id \in Range(cache) :
    /\ cache' = Without(cache, id)
    /\ calls' = ForgetIn(calls, {id})
    /\ hist' = ForgetHist(hist, {id}, calls)
    /\ lost' = lost \cup {id}
    /\ UNCHANGED << routes, mwchain, skippableRoutes, backend, subjs, regs >>
    /\ UNCHANGED << cvars, server, nc >>

InitForget == InitCid /\ backend = "local"

NextForget == ProcessCid \/ Step \/ Returned \/ Forget

SpecForget == InitForget /\ [][NextForget]_vars

\* SpecServer: Server.Run on a server with two event processors; once
\* ListenEvents runs, messages arrive and are dispatched on goroutines.

\* Server.processors, each by the routes its Register method registers
Processors ==
  << << [action |-> GovernorEventUpdate, subj |-> "groups", h |-> 1, mws |-> <<>>] >>,
     << [action |-> GovernorEventUpdate, subj |-> "users", h |-> 2, mws |-> <<>>] >> >>

\* the subjects and events of the messages the event client delivers
ServerSubjects == { "groups", "other" }
ServerEvents == { Event(GovernorEventUpdate, HeadersWith("abc")) }

InitServer ==
  /\ routes = << >>
  /\ regs = <<>>
  /\ mwchain = DefaultRouter
  /\ skippableRoutes = SkipStrategyUpdateOnly
  /\ backend \in { "local", "nats" }
  /\ cache = <<>>
  /\ calls = [p \in Procs |-> IdleCall]
  /\ subjs = <<>>
  /\ hist = [id \in Cids \ {""} |-> 0]
  /\ NoCacheCalls
  /\ server = [IdleServer EXCEPT !.localERDs = <<"a">>]
  /\ lost = {}
  /\ nc = IdleClient

\* the router is left alone by the steps of the server that follow
ServerOnly ==
  /\ UNCHANGED << routes, mwchain, skippableRoutes, backend, cache, calls, subjs,
                  regs, hist >>
  /\ UNCHANGED << cvars, lost, nc >>

\* Run is called, and calls Bootstrap
Run ==
  /\ server.pc = "new"
  /\ server' = [server EXCEPT !.pc = "bootstrap", !.status = StatusBootstrapping]
  /\ ServerOnly

\* one of the calls Bootstrap makes before it registers the processors
\* fails: Bootstrap returns the error, and Run returns it
BootstrapFail ==
  /\ server.pc = "bootstrap"
  /\ server' = [server EXCEPT !.pc = "returned", !.err = BootstrapError]
  /\ ServerOnly

\* those calls succeed: Bootstrap has the local ERDs and the set of the
\* slugs governor listed, and reaches its loop over the local ERDs
BootstrapFetched ==
  /\ server.pc = "bootstrap"
  /\ server' = [server EXCEPT !.pc = "erds"]
  /\ ServerOnly

\* a request to governor about an ERD
Request(op, slug, err) == [op |-> op, slug |-> slug, err |-> err]

\* one turn of the loop that creates every local ERD, listed or not
BootstrapERDAlways ==
  /\ server.pc = "erds"
  /\ server.erd <= Len(server.localERDs)
  /\ LET slug == server.localERDs[server.erd]
     IN  \E err \in { Nil, CreateError } :
           server' = [server EXCEPT !.erd = @ + 1,
                                    !.requests = Append(@, Request("create", slug, err))]
  /\ ServerOnly

\* one turn of the loop over the local ERDs: an ERD whose slug governor
\* listed is skipped; for another a create request is made, whose error is
\* logged
BootstrapERD ==
  /\ server.pc = "erds"
  /\ server.erd <= Len(server.localERDs)
  /\ LET slug == server.localERDs[server.erd]
     IN  IF slug \in server.govERDsSet
           THEN server' = [server EXCEPT !.erd = @ + 1]
           ELSE \E err \in { Nil, CreateError } :
                  server' = [server EXCEPT !.erd = @ + 1,
                                           !.requests = Append(@, Request("create", slug, err))]
  /\ ServerOnly

\* what the readiness endpoint reports
readinessCheck == server.status

\* the loop over the local ERDs is over: Bootstrap reaches its loop over
\* the processors
BootstrapERDsDone ==
  /\ server.pc = "erds"
  /\ server.erd > Len(server.localERDs)
  /\ server' = [server EXCEPT !.pc = "register"]
  /\ ServerOnly

\* the registrations rs made on the route table rt, in order
RECURSIVE RegisterRoutes(_, _)
RegisterRoutes(rt, rs) ==
  IF rs = <<>> THEN rt
  ELSE LET r == Head(rs)
       IN  RegisterRoutes(AddRoute(rt, r.action, r.subj, HandlerFunc(r.h), r.mws),
                          Tail(rs))

\* processor.Register(s.eventRouter, s.extension) of the next processor
RegisterProcessor ==
  /\ server.pc = "register"
  /\ server.next <= Len(Processors)
  /\ routes' = RegisterRoutes(routes, Processors[server.next])
  /\ regs' = regs \o Processors[server.next]
  /\ server' = [server EXCEPT !.next = @ + 1]
  /\ UNCHANGED << mwchain, skippableRoutes, backend, cache, calls, subjs, hist >>
  /\ UNCHANGED << cvars, lost, nc >>

\* Run going on to Subscribe while Bootstrap is still in its loop
SubscribeEarly ==
  /\ server.pc = "register"
  /\ \E order \in SubjectsOf(routes) :
       server' = [server EXCEPT !.pc = "subscribe", !.order = order]
  /\ ServerOnly

\* Bootstrap returns nil after its loop; Run calls Subscribe, which calls
\* s.eventRouter.Subjects()
SubscribeStart ==
  /\ server.pc = "register"
  /\ server.next > Len(Processors)
  /\ \E order \in SubjectsOf(routes) :
       server' = [server EXCEPT !.pc = "subscribe", !.order = order]
  /\ ServerOnly

\* Subscribe going on to the next subject after a failed one
SubscribeNextContinuing ==
  /\ server.pc = "subscribe"
  /\ Len(server.asked) < Len(server.order)
  /\ \E err \in { Nil, SubscribeError } :
       server' = [server EXCEPT !.asked = Append(@, server.order[Len(@) + 1]),
                                !.suberr = IF err # Nil THEN err ELSE @]
  /\ ServerOnly

\* one turn of the loop of Subscribe: s.eventClient.Subscribe(ctx, subj)
\* returns nil, or an error, which Subscribe returns at once
SubscribeNext ==
  /\ server.pc = "subscribe"
  /\ Len(server.asked) < Len(server.order)
  /\ \E err \in { Nil, SubscribeError } :
       server' = [server EXCEPT !.asked = Append(@, server.order[Len(@) + 1]),
                                !.suberr = err,
                                !.pc = IF err # Nil THEN "listen" ELSE @]
  /\ ServerOnly

\* the loop of Subscribe is over: it returns nil
SubscribeReturn ==
  /\ server.pc = "subscribe"
  /\ Len(server.asked) = Len(server.order)
  /\ server' = [server EXCEPT !.pc = "listen"]
  /\ ServerOnly

\* Run, having logged the error of Subscribe if any: go s.ListenEvents(ctx)
Listen ==
  /\ server.pc = "listen"
  /\ server' = [server EXCEPT !.pc = "listening"]
  /\ ServerOnly

\* ListenEvents receives a message and starts a goroutine, which calls
\* s.eventRouter.Process(ctx, msg.Subject, msg.Event)
Deliver ==
  /\ server.pc = "listening"
  /\ \E subj \in ServerSubjects, event \in ServerEvents :
       ProcessCall(FreeProc, subj, event)

\* the goroutine that logs an error of Process and ends the listener
LogReturnStopping(p) ==
  /\ calls[p].st = "done"
  /\ calls' = [calls EXCEPT ![p] = IdleCall]
  /\ server' = IF calls[p].err # Nil
                 THEN [server EXCEPT !.logged = @ \cup { calls[p].err },
                                     !.pc = "stopped"]
                 ELSE server
  /\ UNCHANGED << routes, mwchain, skippableRoutes, backend, cache, subjs, regs, hist >>
  /\ UNCHANGED << cvars, lost, nc >>

\* Process has returned to the goroutine of its message: an error is
\* logged, and the goroutine ends
LogReturn(p) ==
  /\ calls[p].st = "done"
  /\ calls' = [calls EXCEPT ![p] = IdleCall]
  /\ server' = IF calls[p].err # Nil
                 THEN [server EXCEPT !.logged = @ \cup { calls[p].err }]
                 ELSE server
  /\ UNCHANGED << routes, mwchain, skippableRoutes, backend, cache, subjs, regs, hist >>
  /\ UNCHANGED << cvars, lost, nc >>

Logged == \E p \in Procs : LogReturn(p)

\* the context of Run is done
Cancel ==
  /\ server.pc = "listening"
  /\ ~server.cancelled
  /\ server' = [server EXCEPT !.cancelled = TRUE]
  /\ ServerOnly

\* ListenEvents takes the case <-ctx.Done() of its select, and returns
Stop ==
  /\ server.pc = "listening"
  /\ server.cancelled
  /\ server' = [server EXCEPT !.pc = "stopped"]
  /\ ServerOnly

NextServer ==
  \/ Run \/ BootstrapFail \/ BootstrapFetched \/ BootstrapERD \/ BootstrapERDsDone
  \/ RegisterProcessor
  \/ SubscribeStart \/ SubscribeNext \/ SubscribeReturn \/ Listen
  \/ Deliver \/ Step \/ Logged \/ Cancel \/ Stop

SpecServer == InitServer /\ [][NextServer]_vars

\* SpecBootstrap: Server.Run up to the start of ListenEvents, over the
\* local directories and the lists of governor that Bootstrap can find.

\* the singular slugs of the ERDs
ERDSlugs == { "a", "b", "c" }

\* the slugs read from a local directory: any, repeated or not
LocalERDs == UNION { [1..n -> ERDSlugs] : n \in 0..MaxERDs }

InitBootstrap ==
  /\ routes = << >>
  /\ regs = <<>>
  /\ mwchain = DefaultRouter
  /\ skippableRoutes = SkipStrategyUpdateOnly
  /\ backend = "local"
  /\ cache = <<>>
  /\ calls = [p \in Procs |-> IdleCall]
  /\ subjs = <<>>
  /\ hist = [id \in Cids \ {""} |-> 0]
  /\ NoCacheCalls
  /\ \E l \in LocalERDs, g \in SUBSET ERDSlugs :
       server = [IdleServer EXCEPT !.localERDs = l, !.govERDsSet = g]
  /\ lost = {}
  /\ nc = IdleClient

NextBootstrap ==
  \/ Run \/ BootstrapFail \/ BootstrapFetched \/ BootstrapERD \/ BootstrapERDsDone
  \/ RegisterProcessor
  \/ SubscribeStart \/ SubscribeNext \/ SubscribeReturn \/ Listen

SpecBootstrap == InitBootstrap /\ [][NextBootstrap]_vars

\* SpecClient: the NATS client of a server whose processors are
\* registered: Server.Subscribe, then ListenEvents receiving the messages
\* the callbacks of the subscriptions send, until the context of Run is
\* done and Shutdown unsubscribes and drains.

ClientRegistrations == Processors[1] \o Processors[2]

\* NATSClient.prefix
Prefixes == { "gov", "" }

\* the payloads and the headers messages are published with
ClientEvents == { Event(GovernorEventUpdate, HeadersWith("abc")) }
Payloads == { Marshal(e) : e \in ClientEvents } \cup { Garbage }
ClientHeaders == { e.Headers : e \in ClientEvents }

InitClient ==
  /\ routes = Registered(ClientRegistrations)
  /\ regs = ClientRegistrations
  /\ mwchain = NewRouter(<<>>)
  /\ skippableRoutes = SkipStrategyUpdateOnly
  /\ backend = "local"
  /\ cache = <<>>
  /\ calls = [p \in Procs |-> IdleCall]
  /\ subjs = <<>>
  /\ hist = [id \in Cids \ {""} |-> 0]
  /\ NoCacheCalls
  /\ server = IdleServer
  /\ lost = {}
  /\ \E pre \in Prefixes, n \in 0..MaxQueueSize :
       nc = [IdleClient EXCEPT !.prefix = pre, !.queueSize = n]

ClientOnly ==
  /\ UNCHANGED rvars
  /\ UNCHANGED << cvars, server, lost >>

\* Server.Subscribe is called: it ranges over s.eventRouter.Subjects()
ClientSubscribeStart ==
  /\ nc.pc = "new"
  /\ \E o \in SubjectsOf(routes) : nc' = [nc EXCEPT !.pc = "subscribe", !.todo = o]
  /\ ClientOnly

RECURSIVE Copies(_, _)
Copies(n, x) == IF n = 0 THEN <<>> ELSE <<x>> \o Copies(n - 1, x)

\* NATSClient.Subscribe(ctx, subject): queueSize times QueueSubscribe to
\* "<prefix>.<subject>"; the first that fails ends the call, and
\* Server.Subscribe, with its error
ClientSubscribe ==
  /\ nc.pc = "subscribe"
  /\ nc.todo # <<>>
  /\ LET subject == Head(nc.todo)
         subj == Sprintf(nc.prefix, subject)
     IN  \E made \in 0..nc.queueSize :
           nc' = [nc EXCEPT
                    !.subscriptions = @ \o Copies(made, Subscription(subj, subject)),
                    !.todo = IF made < nc.queueSize THEN <<>> ELSE Tail(@),
                    !.suberr = IF made < nc.queueSize THEN SubscribeError ELSE @]
  /\ ClientOnly

\* Server.Subscribe has returned; Run logs its error and starts ListenEvents
ClientListen ==
  /\ nc.pc = "subscribe"
  /\ nc.todo = <<>>
  /\ nc' = [nc EXCEPT !.pc = "listen"]
  /\ ClientOnly

\* a message published on the subject of subscription i is delivered to
\* its callback: a payload that cannot be decoded is logged and dropped;
\* else the callback takes the headers of the message, trims the prefix
\* off its subject and comes to the send on messagesChan
Arrive(i) ==
  /\ i \in DOMAIN nc.subscriptions
  /\ nc.subscriptions[i].active
  /\ nc.subscriptions[i].pc = "idle"
  /\ ~nc.drained
  /\ \E data \in Payloads, header \in ClientHeaders :
       LET msg == [Subject |-> nc.subscriptions[i].subject, Data |-> data,
                   Header |-> header]
           u == Unmarshal(msg.Data)
       IN  IF u.err # Nil
             THEN nc' = [nc EXCEPT !.dropped = TRUE]
             ELSE nc' = [nc EXCEPT
                    !.subscriptions[i].pc = "send",
                    !.subscriptions[i].msg =
                      [Subject |-> TrimPrefix(msg.Subject, nc.prefix \o "."),
                       Event |-> [u.event EXCEPT !.Headers = msg.Header]]]
  /\ ClientOnly

\* ListenEvents receives the message the callback of subscription i sends,
\* and starts a goroutine, which calls s.eventRouter.Process
Receive(i) ==
  /\ nc.pc = "listen"
  /\ i \in DOMAIN nc.subscriptions
  /\ nc.subscriptions[i].pc = "send"
  /\ ProcessStep(FreeProc, nc.subscriptions[i].msg.Subject,
                 nc.subscriptions[i].msg.Event)
  /\ nc' = [nc EXCEPT !.subscriptions[i].pc = "idle"]
  /\ UNCHANGED << cvars, server, lost >>

\* the context of Run is done
ClientCancel ==
  /\ nc.pc = "listen"
  /\ ~nc.cancelled
  /\ nc' = [nc EXCEPT !.cancelled = TRUE]
  /\ ClientOnly

\* ListenEvents takes the case <-ctx.Done() and returns
ListenReturn ==
  /\ nc.pc = "listen"
  /\ nc.cancelled
  /\ nc' = [nc EXCEPT !.pc = "returned"]
  /\ ClientOnly

\* Run, past <-ctx.Done(), calls NATSClient.Shutdown
ShutdownStart ==
  /\ nc.cancelled
  /\ nc.unsub = 0
  /\ nc' = [nc EXCEPT !.unsub = 1]
  /\ ClientOnly

\* Shutdown unsubscribes the next subscription
Unsubscribe ==
  /\ nc.unsub \in DOMAIN nc.subscriptions
  /\ nc' = [nc EXCEPT !.subscriptions[nc.unsub].active = FALSE, !.unsub = @ + 1]
  /\ ClientOnly

\* Shutdown ends with conn.Drain()
Drain ==
  /\ nc.unsub > Len(nc.subscriptions)
  /\ ~nc.drained
  /\ nc' = [nc EXCEPT !.drained = TRUE]
  /\ ClientOnly

\* the goroutine p of the listener runs its Process call to the end, logs
\* the error it returned and ends
GoroutineEnds(p) ==
  /\ calls[p].st # "idle"
  /\ calls' = [calls EXCEPT ![p] = IdleCall]
  /\ UNCHANGED << routes, mwchain, skippableRoutes, backend, cache, subjs, regs, hist >>
  /\ UNCHANGED << cvars, svars >>

\* the subscriptions a client can have
Subscriptions == 1 .. (Len(ClientRegistrations) * (MaxQueueSize + 1))

Callback == \E i \in Subscriptions : Arrive(i)

Received == \E i \in Subscriptions : Receive(i)

Ended == \E p \in Procs : GoroutineEnds(p)

NextClient ==
  \/ ClientSubscribeStart \/ ClientSubscribe \/ ClientListen
  \/ Callback \/ Received \/ Ended
  \/ ClientCancel \/ ListenReturn \/ ShutdownStart \/ Unsubscribe \/ Drain

SpecClient == InitClient /\ [][NextClient]_vars

\* SpecClientLive: the same, with the scheduling the program can count on.
\* Run goes on from one statement to the next, so Server.Subscribe, and
\* Shutdown once the context is done, run to their end; a goroutine of the
\* listener runs to its end; the listener, while it is in its loop, takes
\* the message of every callback that waits at its send, the senders of a
\* channel being served in the order they came; and it returns once the
\* context is done.  Nothing makes a message arrive or the context end.
FairClient ==
  /\ WF_vars(ClientSubscribeStart \/ ClientSubscribe \/ ClientListen)
  /\ WF_vars(ShutdownStart \/ Unsubscribe \/ Drain)
  /\ WF_vars(Ended)
  /\ WF_vars(ListenReturn)
  /\ \A i \in Subscriptions : SF_vars(Receive(i))

SpecClientLive == InitClient /\ [][NextClient]_vars /\ FairClient

\* ------------------------------------------------------------ properties
\* in terms of the history: what was registered, and what each call did

KeysOf(rs) == { <<rs[i].subj, rs[i].action>> : i \in 1..Len(rs) }

SubjectsRegistered == { regs[i].subj : i \in 1..Len(regs) }

Bound(subj, action) == <<subj, action>> \in KeysOf(regs)

\* the latest registration for a key that was registered
LastReg(subj, action) ==
  regs[CHOOSE i \in 1..Len(regs) :
         /\ regs[i].subj = subj /\ regs[i].action = action
         /\ \A j \in 1..Len(regs) :
              (regs[j].subj = subj /\ regs[j].action = action) => j <= i]

\* the middlewares that call their next handler whatever the event
CallsNext == UserMiddlewares \cup { MWTraceContext }

DoneCalls == { p \in Procs : calls[p].st = "done" }

CallCid(p) == ExtractCorrelationID(calls[p].event)

\* C1: a Process call for a registered (subject, action), on a router whose
\* global and route middlewares all call next, runs the handler bound to
\* that key exactly once and runs no other handler.
C1_BoundHandlerOnce ==
  \A p \in DoneCalls :
    LET c == calls[p]
    IN  (/\ Bound(c.subj, c.event.Action)
         /\ Range(mwchain) \subseteq CallsNext
         /\ Range(LastReg(c.subj, c.event.Action).mws) \subseteq CallsNext)
        => c.invoked = << LastReg(c.subj, c.event.Action).h >>

C1_Witness ==
  \E p \in DoneCalls :
    LET c == calls[p]
    IN  /\ Len(regs) = 2
        /\ regs[1].subj = regs[2].subj
        /\ regs[1].action # regs[2].action
        /\ c.subj = regs[1].subj
        /\ c.event.Action = regs[1].action
        /\ mwchain = <<"A">>
        /\ c.invoked = <<1>>

\* C6: a Process call for a subject no route was registered on returns
\* ErrHandlerNotFound, and runs no handler, enters no middleware and does
\* not consult the history cache.
C6_UnknownSubjectNotFound ==
  \A p \in DoneCalls :
    LET c == calls[p]
    IN  c.subj \notin SubjectsRegistered
        => /\ c.err = ErrHandlerNotFound
           /\ c.invoked = <<>>
           /\ c.log = <<>>
           /\ ~c.touched

C6_Witness ==
  \E p \in DoneCalls :
    /\ calls[p].subj \notin SubjectsRegistered
    /\ regs # <<>>
    /\ MWCorrelationID \in Range(mwchain)
    /\ CallCid(p) # ""
    /\ calls[p].err = ErrHandlerNotFound

\* C7: a Process call for a subject that has routes, with an action none of
\* them is for, returns nil and runs no handler.
C7_UnboundActionNoop ==
  \A p \in DoneCalls :
    LET c == calls[p]
    IN  (c.subj \in SubjectsRegistered /\ ~Bound(c.subj, c.event.Action))
        => c.err = Nil /\ c.invoked = <<>> /\ c.log = <<>>

C7_Witness ==
  \E p \in DoneCalls :
    /\ calls[p].subj \in SubjectsRegistered
    /\ ~Bound(calls[p].subj, calls[p].event.Action)
    /\ calls[p].err = Nil
    /\ calls[p].invoked = <<>>

\* C8: Subjects() lists exactly the subjects that had at least one action
\* registered, each once.
C8_SubjectsExact ==
  subjs # <<>>
    => /\ Range(subjs[1]) = SubjectsRegistered
       /\ Len(subjs[1]) = Cardinality(SubjectsRegistered)

C8_Witness ==
  /\ subjs # <<>>
  /\ Len(regs) = 2
  /\ regs[1].subj = regs[2].subj
  /\ regs[1].action # regs[2].action
  /\ subjs[1] = << regs[1].subj >>

\* C10: the route table binds each registered key to the handler of the
\* latest registration for it and binds no other key, and a Process call
\* never runs a handler whose binding was replaced.
C10_LastWriteWins ==
  /\ \A sb \in DOMAIN routes : \A a \in DOMAIN routes[sb] : Bound(sb, a)
  /\ \A k \in KeysOf(regs) :
       /\ k[1] \in DOMAIN routes
       /\ k[2] \in DOMAIN routes[k[1]]
       /\ routes[k[1]][k[2]].h = LastReg(k[1], k[2]).h
  /\ \A p \in Procs : \A i \in 1..Len(regs) :
       regs[i].h # LastReg(regs[i].subj, regs[i].action).h
         => regs[i].h \notin Range(calls[p].invoked)

C10_Witness ==
  \E p \in DoneCalls :
    /\ Len(regs) = 2
    /\ regs[1].subj = regs[2].subj
    /\ regs[1].action = regs[2].action
    /\ calls[p].subj = regs[1].subj
    /\ calls[p].event.Action = regs[1].action
    /\ calls[p].invoked = <<2>>

\* the middlewares a log shows entered, and left, in order
RECURSIVE MarksOf(_, _)
MarksOf(log, op) ==
  IF log = <<>> THEN <<>>
  ELSE IF Head(log).op = op THEN <<Head(log).mw>> \o MarksOf(Tail(log), op)
  ELSE MarksOf(Tail(log), op)

RECURSIVE MarkAll(_, _)
MarkAll(op, mws) ==
  IF mws = <<>> THEN <<>> ELSE <<Mark(op, Head(mws))>> \o MarkAll(op, Tail(mws))

\* C9: global middlewares run as a stack.  On every dispatched event the
\* middlewares are entered in the reverse of the order they were added in
\* (the last added first), all of them before the handler when it is
\* reached, and they are left in the reverse of the order they were
\* entered in, the first added last.
C9_GlobalMiddlewareLIFO ==
  \A p \in DoneCalls :
    LET c == calls[p]
        inbound == Reverse(mwchain)
        entered == MarksOf(c.log, "enter")
        n == Min(Len(entered), Len(inbound))
    IN  Bound(c.subj, c.event.Action)
        => /\ SubSeq(entered, 1, n) = SubSeq(inbound, 1, n)
           /\ c.invoked # <<>> => Len(entered) >= Len(inbound)
           /\ c.log = MarkAll("enter", entered)
                      \o (IF c.invoked # <<>> THEN << Mark("call", "handler") >> ELSE <<>>)
                      \o MarkAll("exit", Reverse(entered))

C9_Witness ==
  \E p \in DoneCalls :
    LET c == calls[p]
    IN  /\ mwchain = <<"A", "B">>
        /\ regs[1].mws = <<>>
        /\ c.log = << Mark("enter", "B"), Mark("enter", "A"), Mark("call", "handler"),
                      Mark("exit", "A"), Mark("exit", "B") >>

\* the (action, subject) of a call is one the skip strategy lists, the
\* subject being one the middleware evaluates (not the empty one)
Skippable(c) ==
  /\ c.subj # ""
  /\ c.event.Action \in DOMAIN skippableRoutes
  /\ \/ Wildcard \in skippableRoutes[c.event.Action]
     \/ c.subj \in skippableRoutes[c.event.Action]

\* C2: of the first two deliveries of a non-empty correlation ID, both on
\* skippable routes, neither failing on the cache and the ID not forgotten
\* meanwhile, exactly one runs the handler, however the two interleave.
C2_ExactlyOneOfTwo ==
  \A p \in DoneCalls : \A q \in DoneCalls :
    LET c == calls[p]
        d == calls[q]
    IN  (/\ p # q
         /\ CallCid(p) # "" /\ CallCid(p) = CallCid(q)
         /\ Bound(c.subj, c.event.Action) /\ Bound(d.subj, d.event.Action)
         /\ Skippable(c) /\ Skippable(d)
         /\ c.nth = 0 /\ d.nth = 1
         /\ ~c.forgot /\ ~d.forgot
         /\ c.err # CacheError /\ d.err # CacheError)
        => Len(c.invoked) + Len(d.invoked) = 1

C2_Witness ==
  \E p \in DoneCalls : \E q \in DoneCalls :
    LET c == calls[p]
        d == calls[q]
    IN  /\ p # q
        /\ CallCid(p) = "abc" /\ CallCid(q) = "abc"
        /\ Skippable(c) /\ Skippable(d)
        /\ c.nth = 0 /\ d.nth = 1
        /\ c.conc /\ d.conc
        /\ ~c.forgot /\ ~d.forgot
        /\ c.invoked = <<>> /\ c.err = Nil
        /\ Len(d.invoked) = 1

\* C3 (amended): with the UpdateOnly strategy and the local cache, and the
\* ID not forgotten meanwhile, an Update event on a registered non-empty
\* subject with a non-empty correlation ID delivered for the first time
\* runs the handler and returns what the handler returned; delivered again
\* after that call returned, it returns nil (the value a successful handler
\* returns) and runs no handler.
C3_SecondDeliverySkipped ==
  \A p \in DoneCalls :
    LET c == calls[p]
    IN  (/\ skippableRoutes = SkipStrategyUpdateOnly
         /\ backend = "local"
         /\ c.event.Action = GovernorEventUpdate
         /\ Bound(c.subj, c.event.Action)
         /\ c.subj # ""
         /\ CallCid(p) # ""
         /\ ~c.conc /\ ~c.forgot)
        => /\ c.nth = 0 => /\ c.invoked = << LastReg(c.subj, c.event.Action).h >>
                           /\ c.err = c.hret[1]
           /\ c.nth \in {1, 2} => /\ c.invoked = <<>>
                                 /\ c.err = Nil

\* C3 as stated, for every registered subject, the empty one included
C3_AnyRegisteredSubject ==
  \A p \in DoneCalls :
    LET c == calls[p]
    IN  (/\ skippableRoutes = SkipStrategyUpdateOnly
         /\ backend = "local"
         /\ c.event.Action = GovernorEventUpdate
         /\ Bound(c.subj, c.event.Action)
         /\ CallCid(p) # ""
         /\ ~c.conc /\ ~c.forgot)
        => /\ c.nth = 0 => /\ c.invoked = << LastReg(c.subj, c.event.Action).h >>
                           /\ c.err = c.hret[1]
           /\ c.nth \in {1, 2} => /\ c.invoked = <<>>
                                 /\ c.err = Nil

C3_Witness ==
  /\ skippableRoutes = SkipStrategyUpdateOnly
  /\ backend = "local"
  /\ \E p \in DoneCalls : \E q \in DoneCalls :
       LET c == calls[p]
           d == calls[q]
       IN  /\ c.subj = "groups" /\ d.subj = "groups"
           /\ c.event = Event(GovernorEventUpdate, HeadersWith("abc"))
           /\ d.event = c.event
           /\ c.nth = 0 /\ c.invoked = <<1>> /\ c.err = HandlerError
           /\ d.nth = 1 /\ d.invoked = <<>> /\ d.err = Nil

\* C4: an empty correlation ID is never recorded in the history cache.
C4_EmptyIDNeverRecorded == "" \notin Range(cache)

\* C5: when the correlation ID of the event or the subject in the context
\* is empty, the correlation middleware calls the next handler exactly once
\* and returns its error, whatever the strategy, the cache and its backend.
C5_EmptyBypassesCache ==
  \A p \in DoneCalls :
    LET c == calls[p]
    IN  (/\ Bound(c.subj, c.event.Action)
         /\ (CallCid(p) = "" \/ c.subj = ""))
        => /\ c.invoked = << LastReg(c.subj, c.event.Action).h >>
           /\ c.err = c.hret[1]

\* C11: an ExistsOrStore call for an ID that the cache has not recorded
\* since it was last absent returns (false, nil), and every call after it
\* returns (true, nil), on the local cache and, when the store does not
\* fail, on the NATS-backed cache; so the two caches return identical
\* results whenever the ID has been absent from both or recorded by both.
C11_CachesAgree ==
  \A i \in DOMAIN both :
    LET r == both[i]
    IN  r.op = "ExistsOrStore"
        => /\ r.local = [exists |-> (r.nth.l > 0), err |-> Nil]
           /\ r.nats.err = Nil => r.nats = [exists |-> (r.nth.k > 0), err |-> Nil]
           /\ (r.nats.err = Nil /\ (r.nth.l > 0 <=> r.nth.k > 0)) => r.local = r.nats

\* a fresh ID was stored, and the call after that finds it in both caches
C11_Witness ==
  /\ both # <<>>
  /\ both[1].op = "ExistsOrStore"
  /\ both[1].nth = [l |-> 1, k |-> 1]
  /\ both[1].local = [exists |-> TRUE, err |-> Nil]
  /\ both[1].nats = [exists |-> TRUE, err |-> Nil]

\* the ExistsOrStore calls for id that have returned, the ID kept since
DoneOps(id) ==
  { c \in Callers : /\ ops[c].pc = "done" /\ ops[c].op = "ExistsOrStore"
                    /\ ops[c].id = id /\ ~ops[c].stale }

\* C12: the calls on a LocalCache exclude each other, and of the
\* ExistsOrStore calls goroutines make concurrently for an ID that is not
\* cached, with no Remove or expiry of it since, the one that reaches the
\* cache first returns false and every other returns true: exactly one
\* returns false, however the calls and those for other IDs interleave.
C12_LocalCacheExclusive ==
  /\ \A c, d \in Callers :
       (/\ ops[c].pc \in { "get", "add", "remove", "unlock" }
        /\ ops[d].pc \in { "get", "add", "remove", "unlock" }) => c = d /\ mu = c
  /\ \A id \in CacheIDs :
       /\ \A c \in DoneOps(id) :
            ops[c].err = Nil /\ (ops[c].exists <=> ops[c].nth > 0)
       /\ Cardinality({ c \in DoneOps(id) : ~ops[c].exists })
            = IF \E c \in DoneOps(id) : ops[c].nth = 0 THEN 1 ELSE 0

\* three goroutines called ExistsOrStore with the same uncached ID, their
\* calls overlapping, and all have returned
C12_Witness ==
  \E id \in CacheIDs :
    /\ DoneOps(id) = Callers
    /\ { ops[c].nth : c \in Callers } = { 0, 1, 2 }
    /\ Cardinality({ c \in Callers : ~ops[c].exists }) = 1

\* the ExistsOrStore calls for id that have returned without an error
DoneOK(id) == { c \in DoneOps(id) : ops[c].err = Nil }

\* C13: of the ExistsOrStore calls replicas make on the shared bucket for
\* an ID, the key not deleted or expired since, the one the store executes
\* first returns existed=false and every later one existed=true: exactly
\* one call fleet-wide returns false; no lock is taken around the create.
C13_OneCreatorFleetWide ==
  /\ mu = 0
  /\ \A id \in CacheIDs :
       /\ \A c \in DoneOK(id) : ops[c].exists <=> ops[c].nth > 0
       /\ Cardinality({ c \in DoneOK(id) : ~ops[c].exists })
            = IF \E c \in DoneOK(id) : ops[c].nth = 0 THEN 1 ELSE 0

\* three replicas called ExistsOrStore with the same new ID, their calls
\* overlapping, and all have returned
C13_Witness ==
  \E id \in CacheIDs :
    /\ DoneOK(id) = Callers
    /\ \A c \in Callers : ops[c].res # ""
    /\ { ops[c].nth : c \in Callers } = { 0, 1, 2 }
    /\ Cardinality({ c \in Callers : ~ops[c].exists }) = 1

\* the NATSCache.ExistsOrStore calls that have returned
CreateOps ==
  { c \in Callers : /\ ops[c].pc = "done" /\ ops[c].op = "ExistsOrStore"
                    /\ ops[c].res # "" }

\* C18: NATSCache.ExistsOrStore returns (false, nil) when kv.Create
\* succeeds, (true, nil) when it fails with ErrKeyExists, and (false, err)
\* when it fails with any other error err.
C18_CreateOutcomesMapped ==
  \A c \in CreateOps :
    /\ ops[c].res = "ok" => ~ops[c].exists /\ ops[c].err = Nil
    /\ ops[c].res = "exists" => ops[c].exists /\ ops[c].err = Nil
    /\ ops[c].res = "error" => ~ops[c].exists /\ ops[c].err = CacheError

\* calls have returned after each of the three outcomes of kv.Create
C18_Witness ==
  { ops[c].res : c \in CreateOps } = { "ok", "exists", "error" }

\* the skip strategy lists the wildcard or the subject for the action
Listed(action, subj) ==
  /\ action \in DOMAIN skippableRoutes
  /\ (Wildcard \in skippableRoutes[action] \/ subj \in skippableRoutes[action])

\* the ShouldSkip calls that have returned without an error
SkipOps ==
  { c \in Callers : /\ ops[c].pc = "done" /\ ops[c].op = "ShouldSkip"
                    /\ ops[c].err = Nil }

\* C14: ShouldSkip returns skip=false on the first sighting of an ID under
\* every strategy, and on a later sighting returns skip=true exactly when
\* the strategy lists the wildcard or the subject for the action.
C14_SkipIffSeenAndListed ==
  \A c \in SkipOps :
    /\ ops[c].nth = 0 => ~ops[c].skip
    /\ ops[c].nth > 0 => (ops[c].skip <=> Listed(ops[c].action, ops[c].subj))

\* a seen ID is skipped for a subject the strategy lists by name
C14_Witness ==
  \E c \in SkipOps :
    /\ ops[c].nth > 0
    /\ ops[c].skip
    /\ Wildcard \notin skippableRoutes[ops[c].action]

\* C16: when the first delivery of a non-empty correlation ID went on to a
\* handler that returned an error, the ID not forgotten since, the next
\* delivery of the ID on a skippable route that the cache answers is
\* skipped: no handler runs and nil is returned.
C16_RecordedDespiteHandlerError ==
  \A p, q \in DoneCalls :
    (/\ CallCid(p) # "" /\ CallCid(q) = CallCid(p)
     /\ calls[p].nth = 0 /\ calls[q].nth = 1
     /\ calls[p].hret = << HandlerError >>
     /\ ~calls[p].conc /\ ~calls[p].forgot
     /\ ~calls[q].conc /\ ~calls[q].forgot
     /\ calls[q].touched /\ calls[q].cerr = Nil
     /\ Skippable(calls[q]))
    => calls[q].invoked = <<>> /\ calls[q].err = Nil

\* the handler of the first delivery failed, and the second was skipped
C16_Witness ==
  \E p, q \in DoneCalls :
    /\ CallCid(p) = "abc" /\ CallCid(q) = "abc"
    /\ calls[p].nth = 0 /\ calls[q].nth = 1
    /\ calls[p].err = HandlerError /\ calls[p].hret = << HandlerError >>
    /\ ~calls[p].forgot /\ ~calls[q].forgot
    /\ Skippable(calls[q])
    /\ calls[q].touched /\ calls[q].invoked = <<>> /\ calls[q].err = Nil

\* C17: when ExistsOrStore returns an error to the correlation middleware,
\* Process returns that error and neither the next handler nor any
\* middleware inside it is entered.
C17_CacheErrorAborts ==
  \A p \in DoneCalls :
    calls[p].cerr # Nil
    => /\ calls[p].err = calls[p].cerr
       /\ calls[p].invoked = <<>>
       /\ Last(calls[p].log) = Mark("exit", MWCorrelationID)
       /\ calls[p].log[Len(calls[p].log) - 1] = Mark("enter", MWCorrelationID)

\* a call on a registered route came back with the error of the cache
C17_Witness ==
  \E p \in DoneCalls :
    /\ calls[p].cerr = CacheError
    /\ Bound(calls[p].subj, calls[p].event.Action)
    /\ calls[p].err = CacheError

\* C19: the error the bound handler returns is what Process returns, through
\* every global and route middleware, and the handler runs once only.
C19_HandlerErrorUnchanged ==
  \A p \in DoneCalls :
    calls[p].invoked # <<>>
    => /\ Len(calls[p].invoked) = 1
       /\ Len(calls[p].hret) = 1
       /\ calls[p].err = calls[p].hret[1]

\* a handler error came back through the trace-context and the correlation
\* middlewares
C19_Witness ==
  \E p \in DoneCalls :
    /\ { MWTraceContext, MWCorrelationID } \subseteq Range(mwchain)
    /\ calls[p].hret = << HandlerError >>
    /\ calls[p].err = HandlerError
    /\ Len(calls[p].log) >= 5

\* the pairs (p, q) of completed calls where p was the first delivery of a
\* non-empty correlation ID and recorded it, and q the delivery after it,
\* answered by the cache, the ID not forgotten in between
SeenBefore ==
  { pq \in DoneCalls \X DoneCalls :
      LET p == calls[pq[1]]
          q == calls[pq[2]]
      IN  /\ CallCid(pq[1]) # "" /\ CallCid(pq[2]) = CallCid(pq[1])
          /\ p.nth = 0 /\ q.nth = 1
          /\ p.touched /\ p.cerr = Nil /\ q.touched /\ q.cerr = Nil
          /\ ~p.conc /\ ~p.forgot /\ ~q.conc /\ ~q.forgot }

\* C15: an event whose non-empty correlation ID has been seen is skipped
\* under the SkipAll strategy whatever its action (no handler runs and nil
\* is returned), and a Create event among them is not skipped under the
\* UpdateOnly strategy (its handler runs).
C15_SkipAllVersusUpdateOnly ==
  \A pq \in SeenBefore :
    LET q == calls[pq[2]]
    IN  /\ skippableRoutes = SkipStrategySkipAll
             => q.invoked = <<>> /\ q.err = Nil
        /\ (skippableRoutes = SkipStrategyUpdateOnly
             /\ q.event.Action = GovernorEventCreate)
             => q.invoked = << LastReg(q.subj, q.event.Action).h >>

\* a Create event with a seen ID was skipped under SkipAll
C15_Witness ==
  \E pq \in SeenBefore :
    /\ skippableRoutes = SkipStrategySkipAll
    /\ calls[pq[2]].event.Action = GovernorEventCreate
    /\ calls[pq[2]].invoked = <<>>
    /\ calls[pq[2]].err = Nil

\* C20: after any sequence of ExistsOrStore and Remove calls the local
\* cache holds at most defaultCacheSize entries, each an ID stored and not
\* removed since, none twice; so once more IDs than that are stored an
\* earlier one is forgotten, and only a full cache forgets a stored ID.
C20_AtMostCapacity ==
  /\ Len(lc) <= defaultCacheSize
  /\ Cardinality(Range(lc)) = Len(lc)
  /\ Range(lc) \subseteq Stored
  /\ Cardinality(Stored) > defaultCacheSize => Stored \ Range(lc) # {}
  /\ (/\ ops[OneCaller].op = "ExistsOrStore"
      /\ ops[OneCaller].nth > 0
      /\ ~ops[OneCaller].exists) => Len(lc) = defaultCacheSize

\* more IDs than the capacity were stored, and the check of the first of
\* them, never removed, then reported it not present
C20_Witness ==
  /\ ops[OneCaller].op = "ExistsOrStore"
  /\ ops[OneCaller].id = 1
  /\ ops[OneCaller].nth > 0
  /\ ~ops[OneCaller].exists
  /\ Cardinality(Stored) > defaultCacheSize

\* ------------------------------------------------------------------- C21
\* C21: in every variant of the correlation middleware, a handler that has
\* been invoked for an event with a non-empty correlation ID finds that ID
\* already recorded in the history (it is recorded in the step that tests
\* it, before the handler runs), and no two goroutines ever access the
\* history at once.
C21_RecordedBeforeHandler ==
  /\ \A p \in Procs :
       (calls[p].invoked # <<>> /\ CallCid(p) # "")
         => CallCid(p) \in Range(cache)
  /\ \A p \in Procs : calls[p].st # "dead"

\* ------------------------------------------------------------------- C22
\* C22: the route-specific middlewares of a route run innermost-first in
\* the order they were listed at registration, and inside every global
\* middleware.  A dispatched event enters the global middlewares (last
\* added first), then the route middlewares from the last listed to the
\* first, then the handler; it leaves them in the opposite order.  No
\* route middleware is entered before every global one has been.
C22_RouteMiddlewaresInnermostFirst ==
  \A p \in DoneCalls :
    LET c == calls[p]
        route == LastReg(c.subj, c.event.Action).mws
        inbound == Reverse(mwchain) \o Reverse(route)
        entered == MarksOf(c.log, "enter")
        n == Min(Len(entered), Len(inbound))
    IN  Bound(c.subj, c.event.Action)
        => /\ SubSeq(entered, 1, n) = SubSeq(inbound, 1, n)
           /\ c.invoked # <<>>
              => c.log = MarkAll("enter", Reverse(mwchain))
                         \o MarkAll("enter", Reverse(route))
                         \o << Mark("call", "handler") >>
                         \o MarkAll("exit", route)
                         \o MarkAll("exit", mwchain)

\* a route registered with [m1, m2] behind the global middlewares A, B
C22_Witness ==
  \E p \in DoneCalls :
    /\ mwchain = <<"A", "B">>
    /\ regs[1].mws = <<"m1", "m2">>
    /\ calls[p].log = << Mark("enter", "B"), Mark("enter", "A"),
                         Mark("enter", "m2"), Mark("enter", "m1"),
                         Mark("call", "handler"),
                         Mark("exit", "m1"), Mark("exit", "m2"),
                         Mark("exit", "A"), Mark("exit", "B") >>

\* ------------------------------------------------------------------- C23
\* C23: Process leaves the router as registration left it.  With two
\* goroutines dispatching concurrently, no step of any Process call
\* changes the route table, the global middleware chain, the skip strategy
\* or the choice of history cache; of the router's state only the contents
\* of the History Cache change.
C23_ProcessLeavesRouter ==
  [][/\ routes' = routes
     /\ mwchain' = mwchain
     /\ skippableRoutes' = skippableRoutes
     /\ backend' = backend]_vars

\* one call has run its handler and come back while another, dispatched
\* concurrently with it, is past the history cache
C23_Witness ==
  \E p, q \in Procs :
    /\ p # q
    /\ calls[p].st = "done" /\ calls[p].invoked # <<>>
    /\ InFlight(calls[q]) /\ calls[q].touched /\ calls[q].conc
    /\ cache # <<>>
    /\ routes = Registered(regs)

\* ------------------------------------------------------------------- C24
\* the registrations of all the processors, in order
RECURSIVE ProcessorRoutes(_)
ProcessorRoutes(n) ==
  IF n = 0 THEN <<>> ELSE ProcessorRoutes(n - 1) \o Processors[n]

\* Run has gone past Bootstrap
Bootstrapped == server.pc \in { "subscribe", "listen", "listening", "stopped" }

\* C24: in Server.Run registration comes first.  Until Bootstrap has
\* returned nil no subject has been subscribed to and no Process call has
\* been made, so no registration interleaves with a Process call; once Run
\* subscribes or dispatches, every processor has registered its routes;
\* and when Bootstrap fails Run returns its error having subscribed to
\* nothing and dispatched nothing.
C24_RegistrationBeforeDispatch ==
  /\ ~Bootstrapped
     => /\ server.asked = <<>>
        /\ \A p \in Procs : calls[p].st = "idle"
        /\ server.logged = {}
  /\ Bootstrapped
     => /\ server.next = Len(Processors) + 1
        /\ regs = ProcessorRoutes(Len(Processors))
        /\ routes = Registered(regs)
        /\ server.err = Nil
  /\ server.pc = "returned" <=> server.err = BootstrapError

\* a message is being processed by a handler a processor registered, after
\* both subjects were subscribed to
C24_Witness ==
  /\ server.pc = "listening"
  /\ Len(server.asked) = 2
  /\ \E p \in Procs : calls[p].invoked = <<1>>

\* ------------------------------------------------------------------- C25
\* Subscribe has returned
Subscribed == server.pc \in { "listen", "listening", "stopped" }

\* C25: when Subscribe has returned nil, the event client was asked to
\* subscribe to each subject of Subjects() once and to nothing else, which
\* are the subjects that have a route; when a subscription failed,
\* Subscribe returned that error at once: the subjects asked for are those
\* Subjects() listed up to the failing one, and none after it.
C25_SubscribesExactlySubjects ==
  /\ (Subscribed /\ server.suberr = Nil)
     => /\ server.asked = server.order
        /\ Range(server.asked) = DOMAIN routes
        /\ Len(server.asked) = Cardinality(DOMAIN routes)
  /\ server.suberr # Nil
     => /\ Subscribed
        /\ server.suberr = SubscribeError
        /\ server.asked # <<>>
        /\ server.asked = SubSeq(server.order, 1, Len(server.asked))

\* both subjects were subscribed to and Subscribe returned nil
C25_Witness ==
  /\ Subscribed
  /\ server.suberr = Nil
  /\ Range(server.asked) = { "groups", "users" }

\* ------------------------------------------------------------------- C26
\* C26: an error of Process is only logged.  Whatever errors the goroutines
\* of earlier messages have logged, ListenEvents leaves its loop only when
\* the context is done, Run has returned no error, and while the loop runs
\* the next message is dispatched on a goroutine of its own.
C26_ErrorsOnlyLogged ==
  /\ server.pc = "stopped" => server.cancelled
  /\ server.logged # {} => server.err = Nil
  /\ (server.pc = "listening" /\ \E p \in Procs : calls[p].st = "idle")
     => ENABLED Deliver

\* the three kinds of error have been logged, and a later message is being
\* processed
C26_Witness ==
  /\ server.pc = "listening"
  /\ ~server.cancelled
  /\ server.logged = { ErrHandlerNotFound, CacheError, HandlerError }
  /\ \E p \in Procs : InFlight(calls[p])

\* ------------------------------------------------------------------- C27
\* how many times x occurs in the sequence sq
Count(sq, x) == Cardinality({ i \in DOMAIN sq : sq[i] = x })

\* C27: the trace-context middleware ends its span whenever it returns.  At
\* every moment of a call the spans open are those of the trace-context
\* middlewares it is inside of, so none is open once control is back with
\* the caller, whether the handler returned nil or an error; the
\* middleware calls its handler once (what it wraps is entered once between
\* its entry and its return), and each time it returns the error its
\* handler returned.
C27_SpanEndedOnEveryPath ==
  \A p \in Procs :
    LET c == calls[p]
        entered == MarksOf(c.log, "enter")
    IN  /\ c.spans = Count(c.stack, MWTraceContext)
        /\ c.st = "done" => c.spans = 0
        /\ c.st = "done"
           => /\ Len(c.tret) = Count(entered, MWTraceContext)
              /\ c.log = MarkAll("enter", entered)
                         \o (IF c.invoked # <<>> THEN << Mark("call", "handler") >>
                             ELSE <<>>)
                         \o MarkAll("exit", Reverse(entered))
        /\ \A i \in DOMAIN c.tret : c.tret[i][2] = c.tret[i][1]
        /\ (c.st = "done" /\ c.tret # <<>> /\ c.hret # <<>>
            /\ MWCorrelationID \notin Range(mwchain))
           => \A i \in DOMAIN c.tret : c.tret[i][1] = c.hret[1]

\* the handler returned an error through the trace-context middleware, and
\* its span is ended
C27_Witness ==
  \E p \in DoneCalls :
    /\ calls[p].tret = << << HandlerError, HandlerError >> >>
    /\ calls[p].err = HandlerError
    /\ calls[p].spans = 0
    /\ Mark("enter", MWTraceContext) \in Range(calls[p].log)

\* ------------------------------------------------------------------- C28
\* C28: the subject saved to the context is the subject read back.  For
\* every subject s, GetSubjectFromContext(SaveSubjectToContext(ctx, s)) = s,
\* also after the correlation ID was put in the same context; a context
\* without a saved subject gives ""; and in every Process call that reached
\* its middlewares, whatever other calls run concurrently with other
\* subjects, the context of the call gives the subject of that call.
C28_SubjectRoundTrip ==
  /\ GetSubjectFromContext(Background) = ""
  /\ \A sb \in RouteSubjects \cup EventSubjects \cup { "" }, cid \in Cids :
       /\ GetSubjectFromContext(SaveSubjectToContext(Background, sb)) = sb
       /\ GetSubjectFromContext(
            InjectCorrelationID(SaveSubjectToContext(Background, sb), cid)) = sb
       /\ GetSubjectFromContext(InjectCorrelationID(Background, cid)) = ""
  /\ \A p \in Procs :
       (InFlight(calls[p]) \/ calls[p].log # <<>>)
         => GetSubjectFromContext(calls[p].ctx) = calls[p].subj

\* two calls with different subjects are past the correlation middleware
\* at the same time
C28_Witness ==
  \E p, q \in Procs :
    /\ InFlight(calls[p]) /\ calls[p].touched /\ calls[p].subj = "groups"
    /\ InFlight(calls[q]) /\ calls[q].touched /\ calls[q].subj = "users"
    /\ GetSubjectFromContext(calls[p].ctx) = "groups"
    /\ GetSubjectFromContext(calls[q].ctx) = "users"

\* ------------------------------------------------------------------- C29
\* C29: the correlation ID travels from the inbound event to the outbound
\* request.  The context a handler is invoked with carries the ID read from
\* the header of the event; a request the handler makes with that context
\* leaves the WithCorrelationID round tripper with exactly that ID under
\* the correlation-ID header when the ID is not empty, and with its
\* headers as they were when the event had no ID or an empty one.
C29_CorrelationIDPropagated ==
  \A p \in Procs :
    LET c == calls[p]
        cid == IF c.event.Headers = NilHeaders THEN "" ELSE HeaderGet(c.event.Headers)
    IN  c.invoked # <<>>
        => /\ ContextCorrelationID(c.ctx) = cid
           /\ \A h \in RequestHeaders :
                IF cid # "" THEN /\ c.out[h] = HeadersWith(cid)
                                 /\ HeaderGet(c.out[h]) = cid
                ELSE c.out[h] = h

\* a handler ran for an event with the ID "abc", and its request carries it
C29_Witness ==
  \E p \in Procs :
    /\ calls[p].invoked # <<>>
    /\ calls[p].event.Headers = HeadersWith("abc")
    /\ \A h \in RequestHeaders : HeaderGet(calls[p].out[h]) = "abc"

\* ------------------------------------------------------------------- C30
\* C30: forgetting an ID costs one repeated run of the handler.  After the
\* local cache has forgotten a correlation ID it had recorded, the next
\* delivery of that ID on a bound, skippable route is treated as a first
\* sighting: its handler runs and the ID is in the cache again; the
\* deliveries after that one are skipped once more (they return nil and
\* run no handler), as long as the ID is not forgotten again.
C30_OneReprocessingAfterForgetting ==
  \A p \in DoneCalls :
    LET c == calls[p]
    IN  (/\ CallCid(p) # "" /\ CallCid(p) \in lost
         /\ Bound(c.subj, c.event.Action)
         /\ Skippable(c)
         /\ ~c.conc /\ ~c.forgot)
        => /\ c.nth = 0 => /\ c.invoked = << LastReg(c.subj, c.event.Action).h >>
                           /\ CallCid(p) \in Range(cache)
           /\ c.nth \in {1, 2} => /\ c.invoked = <<>>
                                 /\ c.err = Nil

\* the ID was forgotten; the delivery after that ran its handler, and the
\* one after it was skipped
C30_Witness ==
  \E p \in DoneCalls : \E q \in DoneCalls :
    /\ CallCid(p) = "abc" /\ CallCid(q) = "abc"
    /\ "abc" \in lost
    /\ Skippable(calls[p]) /\ Skippable(calls[q])
    /\ ~calls[p].forgot /\ ~calls[q].forgot
    /\ calls[p].nth = 0 /\ Len(calls[p].invoked) = 1
    /\ calls[q].nth = 1 /\ calls[q].invoked = <<>> /\ calls[q].err = Nil

\* ------------------------------------------------------------------- C31
\* the slugs of sq that governor has not listed, in order
Unlisted(sq) == SelectSeq(sq, LAMBDA slug : slug \notin server.govERDsSet)

\* C31: Bootstrap asks governor to create a local ERD exactly when its
\* slug is not among those governor listed.  The requests made so far are
\* create requests, one for each local ERD of the loop so far whose slug
\* was not listed, in order, and none for a listed slug; there is no
\* update request.  A create that fails stops nothing: the loop goes on to
\* the remaining ERDs, the processors are registered, and Bootstrap
\* returns nil.
C31_CreateIffAbsent ==
  LET done == SubSeq(server.localERDs, 1, server.erd - 1)
  IN  /\ Len(server.requests) = Len(Unlisted(done))
      /\ \A i \in DOMAIN server.requests :
           /\ server.requests[i].op = "create"
           /\ server.requests[i].slug = Unlisted(done)[i]
           /\ server.requests[i].slug \notin server.govERDsSet
      /\ server.pc \in { "new", "bootstrap" } => server.requests = <<>>
      /\ server.pc = "returned" => server.requests = <<>>
      /\ server.pc \in { "register", "subscribe", "listen", "listening" }
         => server.erd = Len(server.localERDs) + 1
      /\ Bootstrapped
         => /\ server.err = Nil
            /\ regs = ProcessorRoutes(Len(Processors))

\* of three local ERDs the first was listed by governor, the create of the
\* second failed, the third was created, and Bootstrap returned nil
C31_Witness ==
  /\ Bootstrapped
  /\ server.localERDs = << "a", "b", "c" >>
  /\ server.govERDsSet = { "a" }
  /\ server.requests = << Request("create", "b", CreateError),
                          Request("create", "c", Nil) >>
  /\ server.err = Nil

\* ------------------------------------------------------------------- C36
\* C36: the readiness status follows the lifecycle of the server: it is
\* BOOTSTRAPPING while Bootstrap runs, and UP once Bootstrap has returned
\* nil and ListenEvents is running.
C36_StatusFollowsLifecycle ==
  /\ server.pc \in { "bootstrap", "erds", "register" }
     => readinessCheck = StatusBootstrapping
  /\ server.pc = "listening" => readinessCheck = StatusUp

\* ------------------------------------------------------------------- C33
\* the process-event spans the call c has started
SpansStarted(c) == c.spans + Len(c.tret)

\* the call c left the chain in the correlation middleware: it was skipped
\* or the cache returned an error
Aborted(c) == c.st = "done" /\ c.touched /\ c.invoked = <<>>

\* C33: in the router NewServer builds by default the correlation
\* middleware is the outermost.  On every dispatched event it is entered
\* first, before the trace-context middleware: the cache lookup is made
\* once, with a context that is not of a process-event span, at a time no
\* span has been started; and an event that is skipped or aborted by a
\* cache error never enters the trace-context middleware and starts no
\* span.
C33_CorrelationOutermost ==
  \A p \in Procs :
    LET c == calls[p]
    IN  /\ c.log # <<>> => c.log[1] = Mark("enter", MWCorrelationID)
        /\ c.st = "run" /\ ~c.touched => SpansStarted(c) = 0 /\ ~c.ctx.span
        /\ c.touched => Len(c.seen) = 1
        /\ \A i \in DOMAIN c.seen : ~c.seen[i].span
        /\ SpansStarted(c) > 0 => c.touched /\ c.cerr = Nil
        /\ Aborted(c)
           => /\ SpansStarted(c) = 0
              /\ MWTraceContext \notin Range(MarksOf(c.log, "enter"))
              /\ ~c.ctx.span

\* an event aborted by an error of the cache has been logged, a later one
\* was skipped without a span, and another reached its handler inside a
\* span started after the lookup
C33_Witness ==
  /\ CacheError \in server.logged
  /\ \E p, r \in Procs :
       /\ Aborted(calls[p]) /\ calls[p].cerr = Nil /\ calls[p].err = Nil
       /\ calls[r].invoked # <<>> /\ calls[r].ctx.span
       /\ SpansStarted(calls[r]) = 1
       /\ ~calls[r].seen[1].span

\* ------------------------------------------------------------------- C32
\* a call of Process for a registered subject and an action with no handler
Unbound(c) ==
  /\ c.st # "idle"
  /\ c.subj \in SubjectsRegistered
  /\ ~Bound(c.subj, c.event.Action)

\* the step is goroutine p calling Process for such an event
UnboundCall(p) == calls[p].st = "idle" /\ Unbound(calls'[p])

\* C32: an event for a registered subject whose action has no handler
\* leaves the History Cache unchanged.  Process returns nil at the lookup,
\* before any global middleware runs: the step changes neither the cache
\* nor the count of the dispatches of its correlation ID, so that while
\* only such events have carried an ID the cache does not hold it; and
\* the first event with a bound action to carry the ID, however many
\* unbound ones came before it, is not skipped: unless the cache fails,
\* its handler is invoked.
C32_UnboundLeavesHistory ==
  /\ [](/\ \A p \in Procs :
            LET c == calls[p]
            IN  /\ Unbound(c) => /\ Unhandled(c) /\ ~c.touched
                                 /\ c.seen = <<>> /\ c.invoked = <<>>
                /\ c.nth = 0 /\ c.touched /\ c.cerr = Nil /\ c.st # "run"
                   => c.invoked # <<>>
        /\ \A id \in DOMAIN hist : hist[id] = 0 => id \notin Range(cache))
  /\ [][\A p \in Procs : UnboundCall(p) => cache' = cache /\ hist' = hist]_vars

\* an event with an action "users" has no handler for has returned; the
\* event dispatched last, which is still in flight, has the same
\* correlation ID and a bound action: it was the first to be looked up in
\* the cache, has reached its handler and left the ID in the cache
C32_Witness ==
  \E p, q \in Procs :
    /\ Unbound(calls[p])
    /\ InFlight(calls[q])
    /\ CallCid(p) = CallCid(q)
    /\ calls[q].nth = 0
    /\ calls[q].invoked # <<>>
    /\ CallCid(q) \in Range(cache)

\* ------------------------------------------------------------------- C35
\* C35: every subscription the server made is to "<prefix>.<s>" for a
\* subject s of the router, and a message received on it is handed on with
\* the subject s exactly: the callback sends s, and Process is called with
\* a subject that has handlers, so it never returns ErrHandlerNotFound.
\* A message whose payload cannot be decoded never reaches Process: every
\* event Process is called with was decoded from a payload and has the
\* headers of its message.
C35_SubjectRestored ==
  /\ \A i \in DOMAIN nc.subscriptions :
       LET sub == nc.subscriptions[i]
       IN  /\ sub.for \in DOMAIN routes
           /\ sub.subject = Sprintf(nc.prefix, sub.for)
           /\ sub.pc = "send" => /\ sub.msg.Subject = sub.for
                                 /\ sub.msg.Event \in ClientEvents
  /\ \A p \in Procs :
       calls[p].st # "idle"
       => /\ calls[p].subj \in DOMAIN routes
          /\ calls[p].err # ErrHandlerNotFound
          /\ calls[p].event \in ClientEvents

\* with the prefix "gov", a message that arrived on "gov.groups" is with
\* its handler, one that arrived on "gov.users" is in its callback, and a
\* message that could not be decoded was dropped
C35_Witness ==
  /\ nc.prefix = "gov"
  /\ nc.dropped
  /\ \E p \in Procs : calls[p].subj = "groups" /\ calls[p].st = "run"
  /\ \E i \in DOMAIN nc.subscriptions :
       /\ nc.subscriptions[i].subject = "gov.users"
       /\ nc.subscriptions[i].pc = "send"
       /\ nc.subscriptions[i].msg.Subject = "users"

\* ------------------------------------------------------------------- C34
\* the callback of subscription i is at its send on messagesChan
Sending(i) == i \in DOMAIN nc.subscriptions /\ nc.subscriptions[i].pc = "send"

\* C34: every message a callback has decoded is eventually handed to the
\* listener: a callback that is at its send on the message channel
\* eventually gets past it, whenever the message arrived, and none stays
\* blocked forever.
C34_SendCompletes == \A i \in Subscriptions : Sending(i) ~> ~Sending(i)

\* ------------------------------------------------------------------- C37
\* the step is a call of op on both caches, with the ID id
CallOnBoth(op, id) ==
  /\ both' # both
  /\ both'[1].op = op
  /\ both'[1].id = id

\* C37: Remove makes an ID fresh again.  On both caches the ExistsOrStore
\* that follows a Remove of the same ID that returned nil returns
\* (false, nil), unless the store fails, and every ExistsOrStore leaves
\* the ID recorded.  A Remove takes its ID out and leaves every other ID
\* as it was; on the local cache it returns nil always, and with the ID
\* absent it changes nothing.
C37_RemoveMakesFresh ==
  /\ [](Len(both) = 2 /\ both[1].op = "ExistsOrStore" /\ both[2].op = "Remove"
          /\ both[1].id = both[2].id
        => /\ both[2].local.err = Nil
           /\ both[1].local = [exists |-> FALSE, err |-> Nil]
           /\ both[2].nats.err = Nil /\ both[1].nats.err = Nil
              => ~both[1].nats.exists)
  /\ [][\A id \in CacheIDs :
          /\ CallOnBoth("ExistsOrStore", id)
             => /\ id \in Range(lc')
                /\ both'[1].nats.err = Nil => id \in Range(kv')
          /\ CallOnBoth("Remove", id)
             => /\ both'[1].local.err = Nil
                /\ Range(lc') = Range(lc) \ {id}
                /\ id \notin Range(lc) => lc' = lc
                /\ both'[1].nats.err = Nil => Range(kv') = Range(kv) \ {id}
                /\ both'[1].nats.err # Nil => kv' = kv]_vars

\* an ID both caches held was removed, with the other ID left in both, and
\* the ExistsOrStore after that returned (false, nil) on both and recorded
\* it again
C37_Witness ==
  /\ Len(both) = 2
  /\ both[2].op = "Remove" /\ both[2].id = "a"
  /\ both[2].nth = [l |-> 1, k |-> 1]
  /\ both[2].nats.err = Nil
  /\ both[1].op = "ExistsOrStore" /\ both[1].id = "a"
  /\ both[1].local = [exists |-> FALSE, err |-> Nil]
  /\ both[1].nats = [exists |-> FALSE, err |-> Nil]
  /\ Range(lc) = { "a", "b" }
  /\ Range(kv) = { "a", "b" }

====
